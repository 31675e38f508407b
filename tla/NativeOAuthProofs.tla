------------------------- MODULE NativeOAuthProofs -------------------------
(***************************************************************************)
(* Proofs about NativeOAuth, for any number of commands, files, faults and *)
(* edits: type correctness, exclusion by the profile lock, a recovery that *)
(* can always settle, files that agree, tokens that never fall back.       *)
(***************************************************************************)
EXTENDS NativeOAuth, TLAPS

\* The steps of a recovery that work on the journal it has loaded.
JournalSteps == {"syncConfig", "settle", "confirm", "forget"}

RecoverySteps == JournalSteps \cup {"classify"}

JournalHeld == \A p \in Procs : pc[p] \in JournalSteps => journal # NoJournal
BuiltFor == \A r \in Refreshers : pc[r] # "idle" => gen[r] \in Gens

\* A login past its journal commit works under its own durable journal.
OwnJournal == \A l \in Logins : pc[l] \in {"cache", "save"} =>
                journal # NoJournal /\ journal.login = l /\ journalD = journal
NoJournalYet == \A l \in Logins : pc[l] \in {"compare", "journal"} => journal = NoJournal

\* Only a login whose journal was durable is ever saved.
SavedCovers == \A t \in Targets : {config[t], configD[t]} \subseteq Foreign \cup saved

\* While the visible journal is not the durable one, its login has changed
\* neither file.
FreshJournal == journal # NoJournal /\ journalD # journal =>
                  /\ journal.login \notin saved
                  /\ Owner(cache) = Owner(journal.previous)
                  /\ Owner(cacheD) = Owner(journal.previous)
\* A login is saved only by its last step before its final recovery.
SavedLast == \A l \in Logins : l \in saved =>
               pc[l] = "done" \/ (pc[l] \in RecoverySteps /\ resume \in {"finish", "abort"})
NewIsSaved == \A p \in Procs : lock = p /\ verdict = "new" => journal # NoJournal /\ journal.login \in saved

\* The durable cache entry has the visible owner when no journal is left, and
\* when the last one is about to be deleted.
OneOwner == journal = NoJournal \/ (\E p \in Procs : pc[p] = "forget") => Owner(cache) = Owner(cacheD)

IInv == /\ TypeOK /\ LockDiscipline /\ JournalHeld /\ BuiltFor
        /\ OwnJournal /\ NoJournalYet /\ SavedCovers /\ FreshJournal
        /\ SavedLast /\ NewIsSaved /\ OneOwner /\ Recoverable

-----------------------------------------------------------------------------
(***************************************************************************)
(* What the control operators do to the lock and to the program counters.  *)
(***************************************************************************)
Errors == {"none", "failed", "changed", "uncertain"}
Control == ControlOK /\ LockDiscipline

\* Only p moves, to one of the labels L.
Moves(p, L) == pc' = [pc EXCEPT ![p] = pc'[p]] /\ pc'[p] \in L

\* Worse combines errors and results into results.
LEMMA WorseType ==
  ASSUME NEW a \in Results, NEW b \in Results
  PROVE  Worse(a, b) \in Results /\ (b # "none" /\ b \in Errors => Worse(a, b) # "none")
  BY DEF Worse, Results, Errors

\* A failing step reports an error, and its kind is one of the four.
LEMMA StepErrorType ==
  ASSUME NEW err \in Errors
  PROVE  StepError(err) \in Errors /\ (err # "none" => StepError(err) # "none")
  BY DEF StepError, Worse, Errors

\* A holder that goes to a locked step keeps the lock discipline.
LEMMA GotoControl ==
  ASSUME Control, NEW p \in Procs, lock = p, NEW label \in Labels, label \in Locked, Goto(p, label)
  PROVE  Control' /\ Moves(p, {label}) /\ resume' = resume /\ verdict' = verdict
  BY NamesAssumption DEF Control, ControlOK, LockDiscipline, Goto, Moves

\* A holder that releases the lock goes to a step outside it.
LEMMA ReleaseControl ==
  ASSUME Control, NEW p \in Procs, lock = p, NEW next \in Labels, next \notin Locked,
         NEW res, p \in Logins => res \in Results, Release(p, next, res)
  PROVE  Control' /\ Moves(p, {next}) /\ verdict' = "none" /\ resume' = "none" /\ lock' = Free
  BY NamesAssumption DEF Control, ControlOK, LockDiscipline, Release, Moves

\* The ways a recovery ends: only without error does the command go on.
LEMMA RecoveredControl ==
  ASSUME Control, NEW p \in Procs, lock = p, NEW err \in Errors, Recovered(p, err)
  PROVE  /\ Control' /\ verdict' = "none" /\ resume' = "none"
         /\ Moves(p, {"done", "idle", "login", "built", "compare", "check"})
         /\ pc'[p] \in {"login", "built", "compare", "check"} => err = "none"
         /\ resume \in {"finish", "abort"} => pc'[p] = "done"
  <1>1. CASE resume = "abort"
    <2>1. Release(p, "done", Worse(result[p], err))
      BY <1>1 DEF Recovered
    <2>2. p \in Logins => Worse(result[p], err) \in Results
      BY WorseType DEF Control, ControlOK, Errors, Results
    <2>. QED
      BY <1>1, <2>1, <2>2, ReleaseControl DEF Labels, Locked, Moves
  <1>2. CASE resume = "finish"
    <2>1. Release(p, "done", IF err = "none" THEN "ok" ELSE err)
      BY <1>2 DEF Recovered
    <2>. QED
      BY <1>2, <2>1, ReleaseControl DEF Labels, Locked, Moves, Errors, Results
  <1>3. CASE resume \in {"compare", "check"} /\ err = "none"
    BY <1>3, NamesAssumption DEF Recovered, Control, ControlOK, LockDiscipline, Labels, Locked, Moves
  <1>4. CASE resume \in {"login", "built"} /\ err = "none"
    <2>1. Release(p, resume, result[p])
      BY <1>4 DEF Recovered
    <2>2. p \in Logins => result[p] \in Results
      BY DEF Control, ControlOK
    <2>. QED
      BY <1>4, <2>1, <2>2, ReleaseControl DEF Labels, Locked, Moves
  <1>5. CASE resume \in {"compare", "check", "login", "built"} /\ err # "none"
    <2>1. Release(p, Idle(p), err)
      BY <1>5 DEF Recovered
    <2>2. Idle(p) \in {"done", "idle"}
      BY DEF Idle
    <2>. QED
      BY <1>5, <2>1, <2>2, ReleaseControl DEF Labels, Locked, Moves, Errors, Results
  <1>. QED
    BY <1>1, <1>2, <1>3, <1>4, <1>5 DEF Recovered

-----------------------------------------------------------------------------
(***************************************************************************)
(* What one command's move does to the conjuncts about program counters.   *)
(***************************************************************************)
\* p moves alone; whoever else holds the lock finds everything as it was.
AloneOrHolder(p) ==
  /\ pc' = [pc EXCEPT ![p] = pc'[p]] /\ pc'[p] \in Labels
  /\ lock \in {p, Free} \/ UNCHANGED <<journal, journalD, resume>>
  /\ \A r \in Refreshers : r # p => gen'[r] = gen[r]

\* The conditions on p's new label under which the conjuncts survive.
LEMMA Progress ==
  ASSUME IInv, NEW p \in Procs, AloneOrHolder(p), saved' \subseteq saved \cup {p},
         pc'[p] \in JournalSteps => journal' # NoJournal,
         pc'[p] \in {"cache", "save"} => journal' # NoJournal /\ journal'.login = p /\ journalD' = journal',
         pc'[p] \in {"compare", "journal"} => journal' = NoJournal,
         p \in Refreshers /\ pc'[p] # "idle" => gen'[p] \in Gens,
         p \in Logins \cap saved' => pc'[p] = "done" \/ (pc'[p] \in RecoverySteps /\ resume' \in {"finish", "abort"})
  PROVE  JournalHeld' /\ BuiltFor' /\ OwnJournal' /\ NoJournalYet' /\ SavedLast'
  <1>. USE NamesAssumption DEF IInv, TypeOK, ControlOK, LockDiscipline, AloneOrHolder, Locked,
           JournalSteps, RecoverySteps
  <1>1. ASSUME NEW q \in Procs, q # p, pc[q] \in Locked
        PROVE  lock = q /\ UNCHANGED <<journal, journalD, resume>> /\ pc'[q] = pc[q]
    BY <1>1
  <1>2. \A q \in Procs : q # p => pc'[q] = pc[q]
    <2>1. pc \in [Procs -> Labels] /\ pc' = [pc EXCEPT ![p] = pc'[p]]
      OBVIOUS
    <2>. QED
      BY <2>1
  <1>3. JournalHeld'
    BY <1>1, <1>2 DEF JournalHeld
  <1>4. BuiltFor'
    BY <1>2 DEF BuiltFor, Procs
  <1>5. OwnJournal'
    BY <1>1, <1>2 DEF OwnJournal, Procs
  <1>6. NoJournalYet'
    BY <1>1, <1>2 DEF NoJournalYet, Procs
  <1>7. SavedLast'
    BY <1>1, <1>2 DEF SavedLast, Procs
  <1>. QED
    BY <1>3, <1>4, <1>5, <1>6, <1>7

\* A step that leaves the files alone.
LEMMA QuietStep ==
  ASSUME IInv, NEW p \in Procs, AloneOrHolder(p), UNCHANGED <<files, saved>>,
         Control', LocalsOK', CountersOK',
         pc'[p] \in JournalSteps => journal # NoJournal,
         pc'[p] \notin {"cache", "save", "forget"},
         pc'[p] \in {"compare", "journal"} => journal = NoJournal,
         p \in Refreshers /\ pc'[p] # "idle" => gen'[p] \in Gens,
         p \in Logins \cap saved => pc'[p] = "done" \/ (pc'[p] \in RecoverySteps /\ resume' \in {"finish", "abort"}),
         lock' \in Procs /\ verdict' = "new" => journal # NoJournal /\ journal.login \in saved
  PROVE  IInv'
  <1>1. JournalHeld' /\ BuiltFor' /\ OwnJournal' /\ NoJournalYet' /\ SavedLast'
    BY Progress DEF files
  <1>2. FilesOK' /\ SavedCovers' /\ FreshJournal' /\ Recoverable'
    BY DEF IInv, TypeOK, FilesOK, SavedCovers, FreshJournal, Recoverable, Pending, Caches, Owner, files
  <1>3. NewIsSaved'
    BY DEF NewIsSaved, files
  <1>4. OneOwner'
    BY DEF IInv, TypeOK, ControlOK, OneOwner, AloneOrHolder, Owner, files
  <1>. QED
    BY <1>1, <1>2, <1>3, <1>4 DEF IInv, TypeOK, Control

-----------------------------------------------------------------------------
(***************************************************************************)
(* The steps of the recovery.                                              *)
(***************************************************************************)
\* A charged fault keeps the counters typed.
LEMMA ChargeType ==
  ASSUME CountersOK, NEW o \in Outcomes, Charge(o)
  PROVE  faults' \in Nat
  BY BoundsAssumption DEF CountersOK, Charge

\* What the steps of a recovery leave alone.
RecoveryFrame == UNCHANGED <<frozen, gen, fresh, issued, saved, kept, edits>>

\* What a recovery step owes for the conjuncts about program counters.
Advanced(p) ==
  /\ AloneOrHolder(p) /\ Control'
  /\ pc'[p] \notin {"cache", "save"}
  /\ p \in Refreshers /\ pc'[p] # "idle" => gen'[p] \in Gens
  /\ p \in Logins \cap saved =>
       pc'[p] = "done" \/ (pc'[p] \in RecoverySteps /\ resume' \in {"finish", "abort"})

\* A recovery that ends, with or without an error.
LEMMA RecoveryEnds ==
  ASSUME IInv, NEW p \in Procs, lock = p, pc[p] \in RecoverySteps, NEW err \in Errors,
         Recovered(p, err), RecoveryFrame
  PROVE  /\ Advanced(p) /\ verdict' = "none"
         /\ pc'[p] \notin JournalSteps \cup {"journal"}
         /\ pc'[p] = "compare" => err = "none"
  <1>1. Control
    BY DEF IInv, TypeOK, Control
  <1>2. /\ Control' /\ verdict' = "none"
        /\ Moves(p, {"done", "idle", "login", "built", "compare", "check"})
        /\ pc'[p] \in {"login", "built", "compare", "check"} => err = "none"
        /\ resume \in {"finish", "abort"} => pc'[p] = "done"
    BY <1>1, RecoveredControl
  <1>3. AloneOrHolder(p)
    BY <1>2 DEF AloneOrHolder, Moves, RecoveryFrame, Labels
  <1>4. p \in Refreshers => gen'[p] \in Gens
    BY DEF IInv, BuiltFor, RecoverySteps, JournalSteps, RecoveryFrame
  <1>5. p \in Logins \cap saved => resume \in {"finish", "abort"}
    BY DEF IInv, SavedLast, RecoverySteps, JournalSteps
  <1>. QED
    BY <1>2, <1>3, <1>4, <1>5 DEF Advanced, Moves, JournalSteps

\* A recovery that goes on to another of its steps.
LEMMA RecoveryGoesOn ==
  ASSUME IInv, NEW p \in Procs, lock = p, pc[p] \in RecoverySteps, NEW next \in RecoverySteps,
         Goto(p, next), RecoveryFrame
  PROVE  Advanced(p) /\ verdict' = verdict /\ pc'[p] = next
  <1>1. Control
    BY DEF IInv, TypeOK, Control
  <1>2. Control' /\ Moves(p, {next}) /\ resume' = resume /\ verdict' = verdict
    BY <1>1, GotoControl DEF Labels, Locked, RecoverySteps, JournalSteps
  <1>3. AloneOrHolder(p)
    BY <1>2 DEF AloneOrHolder, Moves, RecoveryFrame, Labels, RecoverySteps, JournalSteps
  <1>4. p \in Refreshers => gen'[p] \in Gens
    BY DEF IInv, BuiltFor, RecoverySteps, JournalSteps, RecoveryFrame
  <1>5. p \in Logins \cap saved => resume \in {"finish", "abort"}
    BY DEF IInv, SavedLast, RecoverySteps, JournalSteps
  <1>. QED
    BY <1>2, <1>3, <1>4, <1>5 DEF Advanced, Moves, RecoverySteps, JournalSteps

\* The unchanged locals and counters stay typed.
LEMMA FrameTypes ==
  ASSUME IInv, RecoveryFrame, faults' \in Nat
  PROVE  LocalsOK' /\ CountersOK' /\ saved' = saved
  BY DEF IInv, TypeOK, LocalsOK, CountersOK, RecoveryFrame

\* Loading the journal and the configuration tells which case applies.
LEMMA ClassifyStep == ASSUME IInv, NEW p \in Procs, Classify(p) PROVE IInv'
  <1>1. lock = p /\ pc[p] = "classify" /\ UNCHANGED <<files, faults>> /\ RecoveryFrame
    BY DEF Classify, RecoveryFrame
  <1>2. LocalsOK' /\ CountersOK' /\ saved' = saved
    BY <1>1, FrameTypes DEF IInv, TypeOK, CountersOK
  <1>3. CASE journal = NoJournal
    <2>1. Advanced(p) /\ verdict' = "none" /\ pc'[p] \notin JournalSteps \cup {"journal"}
      BY <1>1, <1>3, RecoveryEnds DEF Classify, Errors, RecoverySteps
    <2>. QED
      BY <1>1, <1>2, <1>3, <2>1, QuietStep DEF Advanced, JournalSteps
  <1>4. CASE journal # NoJournal
    <2>1. /\ pc' = [pc EXCEPT ![p] = IF verdict' = "new" THEN "syncConfig" ELSE "settle"]
          /\ UNCHANGED <<lock, result, resume>>
          /\ verdict' \in {"new", "old", "other", "moved"}
          /\ verdict' = "new" => ConfigAt(journal.path) = journal.login
      BY <1>4 DEF Classify
    <2>2. pc'[p] \in {"syncConfig", "settle"} /\ Moves(p, {"syncConfig", "settle"})
      BY <2>1 DEF IInv, TypeOK, ControlOK, Moves
    <2>3. Control'
      BY <1>1, <2>1, NamesAssumption DEF IInv, TypeOK, Control, ControlOK, LockDiscipline, Labels, Locked
    <2>4. verdict' = "new" => journal.login \in saved
      BY <1>4, <2>1, NamesAssumption DEF IInv, TypeOK, FilesOK, Journals, ConfigAt, SavedCovers, Gens
    <2>5. AloneOrHolder(p)
      BY <1>1, <2>1, <2>2 DEF AloneOrHolder, Moves, RecoveryFrame, Labels
    <2>6. p \in Refreshers => gen'[p] \in Gens
      BY <1>1 DEF IInv, BuiltFor, RecoveryFrame
    <2>7. p \in Logins \cap saved => resume' \in {"finish", "abort"}
      BY <1>1, <2>1 DEF IInv, SavedLast
    <2>. QED
      BY <1>1, <1>2, <1>4, <2>2, <2>3, <2>4, <2>5, <2>6, <2>7, QuietStep DEF JournalSteps, RecoverySteps
  <1>. QED
    BY <1>3, <1>4

\* A recovery that stops on an error leaves the files as they are.
LEMMA RecoveryFailsStep == ASSUME IInv, NEW p \in Procs, RecoveryFails(p) PROVE IInv'
  <1>1. lock = p /\ pc[p] \in RecoverySteps /\ UNCHANGED files /\ RecoveryFrame
    BY DEF RecoveryFails, RecoveryFrame, RecoverySteps, JournalSteps
  <1>2. LocalsOK' /\ CountersOK' /\ saved' = saved
    <2>1. faults' \in Nat
      BY ChargeType DEF RecoveryFails, IInv, TypeOK, Outcomes
    <2>. QED
      BY <1>1, <2>1, FrameTypes
  <1>3. Recovered(p, StepError("failed")) /\ StepError("failed") \in Errors \ {"none"}
    BY StepErrorType DEF RecoveryFails, Errors
  <1>4. Advanced(p) /\ verdict' = "none" /\ pc'[p] \notin JournalSteps \cup {"journal", "compare"}
    BY <1>1, <1>3, RecoveryEnds
  <1>. QED
    BY <1>1, <1>2, <1>4, QuietStep DEF Advanced, JournalSteps

\* A recovery step that changes files.
LEMMA RecoveryStep ==
  ASSUME IInv, NEW p \in Procs, lock = p, pc[p] \in RecoverySteps, Advanced(p), RecoveryFrame,
         faults' \in Nat, FilesOK', SavedCovers', FreshJournal', Recoverable',
         pc'[p] \in JournalSteps => journal' # NoJournal,
         pc'[p] \in {"compare", "journal"} => journal' = NoJournal,
         verdict' = "new" => journal' # NoJournal /\ journal'.login \in saved,
         journal' = NoJournal \/ pc'[p] = "forget" => Owner(cache') = Owner(cacheD')
  PROVE  IInv'
  <1>1. LocalsOK' /\ CountersOK' /\ saved' = saved
    BY FrameTypes
  <1>2. JournalHeld' /\ BuiltFor' /\ OwnJournal' /\ NoJournalYet' /\ SavedLast'
    BY <1>1, Progress DEF Advanced
  <1>3. NewIsSaved'
    BY <1>1 DEF NewIsSaved
  <1>4. OneOwner'
    <2>1. \A q \in Procs : q # p => pc'[q] = pc[q] /\ pc[q] \notin Locked
      BY DEF Advanced, AloneOrHolder, IInv, TypeOK, ControlOK, LockDiscipline
    <2>. QED
      BY <2>1 DEF OneOwner, Locked, Owner
  <1>. QED
    BY <1>1, <1>2, <1>3, <1>4 DEF IInv, TypeOK, Advanced, Control

\* The configuration becomes durable as it is seen.
LEMMA SyncConfigStep == ASSUME IInv, NEW p \in Procs, SyncConfig(p) PROVE IInv'
  <1>1. /\ lock = p /\ pc[p] \in RecoverySteps /\ RecoveryFrame /\ journal # NoJournal
        /\ UNCHANGED <<resolved, config, cache, cacheD, journal, journalD>>
    BY DEF SyncConfig, RecoveryFrame, RecoverySteps, JournalSteps, IInv, JournalHeld
  <1>2. /\ configD' \in [Targets -> ConfigValues]
        /\ \A t \in Targets : configD'[t] \in {config[t], configD[t]}
    <2>1. configD' = configD \/ configD' = [configD EXCEPT ![journal.target] = config[journal.target]]
      BY DEF SyncConfig
    <2>2. journal.target \in Targets /\ config \in [Targets -> ConfigValues] /\ configD \in [Targets -> ConfigValues]
      BY <1>1 DEF IInv, TypeOK, FilesOK, Journals
    <2>. QED
      BY <2>1, <2>2
  <1>3. FilesOK' /\ SavedCovers' /\ FreshJournal' /\ Recoverable'
    BY <1>1, <1>2 DEF IInv, TypeOK, FilesOK, SavedCovers, FreshJournal, Recoverable, Pending, Caches, Owner,
       RecoveryFrame
  <1>4. faults' \in Nat
    BY ChargeType DEF SyncConfig, IInv, TypeOK, CountersOK, Outcomes
  <1>5. /\ Advanced(p) /\ verdict' \in {"none", verdict}
        /\ pc'[p] \notin {"forget", "compare", "journal"}
    <2>1. CASE Goto(p, "settle")
      BY <1>1, <2>1, RecoveryGoesOn DEF RecoverySteps, JournalSteps
    <2>2. CASE Recovered(p, "changed") \/ Recovered(p, "uncertain")
      BY <1>1, <2>2, RecoveryEnds DEF Errors, JournalSteps
    <2>. QED
      BY <2>1, <2>2 DEF SyncConfig
  <1>. QED
    BY <1>1, <1>3, <1>4, <1>5, RecoveryStep DEF IInv, NewIsSaved

\* A cache replacement of the recovery installs one of the two entries the
\* journal can settle, and the previous one while the journal is fresh.
LEMMA SettleByStep ==
  ASSUME IInv, NEW p \in Procs, lock = p, pc[p] = "settle", RecoveryFrame,
         NEW e \in Entries \cup {NoEntry}, NEW next \in {"confirm", "forget"},
         Owner(e) = Owner(journal.previous) \/ (verdict = "new" /\ Owner(e) = journal.login),
         SettleBy(p, e, next)
  PROVE  IInv'
  <1>1. PICK o \in Outcomes : /\ Charge(o) /\ ReplaceCache(e, o)
                              /\ IF o = "ok" THEN Goto(p, next) ELSE Recovered(p, StepError(o))
    BY DEF SettleBy
  <1>2. journal # NoJournal /\ journal \in Journals /\ pc[p] \in RecoverySteps
    BY DEF IInv, JournalHeld, JournalSteps, TypeOK, FilesOK, RecoverySteps
  <1>3. /\ UNCHANGED <<resolved, config, configD, journal>>
        /\ cache' \in {cache, e} /\ cacheD' \in {cacheD, e} /\ journalD' \in {journal, journalD}
        /\ o = "ok" => cache' = cacheD'
    BY <1>1 DEF ReplaceCache
  <1>4. FilesOK' /\ SavedCovers'
    BY <1>2, <1>3 DEF IInv, TypeOK, FilesOK, SavedCovers, RecoveryFrame
  <1>5. faults' \in Nat
    BY <1>1, ChargeType DEF IInv, TypeOK
  <1>6. journalD # journal => /\ Owner(e) = Owner(journal.previous)
                              /\ Owner(cache) = Owner(e) /\ Owner(cacheD) = Owner(e)
                              /\ journal.login \notin saved
    BY <1>2 DEF IInv, FreshJournal, NewIsSaved
  <1>7. FreshJournal'
    BY <1>3, <1>6 DEF FreshJournal, RecoveryFrame, Owner
  <1>8. Recoverable'
    <2>1. CASE journalD = journal
      BY <1>2, <1>3, <2>1 DEF IInv, Recoverable, Pending, Caches, Owner
    <2>2. CASE journalD # journal
      BY <1>2, <1>3, <1>6, <2>2 DEF IInv, Recoverable, Pending, Caches, Owner
    <2>. QED
      BY <2>1, <2>2
  <1>9. /\ Advanced(p) /\ verdict' \in {"none", verdict}
        /\ pc'[p] \notin {"compare", "journal"}
        /\ pc'[p] = "forget" => o = "ok"
    <2>1. CASE o = "ok"
      BY <1>1, <1>2, <2>1, RecoveryGoesOn DEF RecoverySteps, JournalSteps
    <2>2. CASE o # "ok"
      <3>1. StepError(o) \in Errors /\ StepError(o) # "none"
        BY <2>2, StepErrorType DEF Errors, Outcomes
      <3>. QED
        BY <1>1, <1>2, <2>2, <3>1, RecoveryEnds DEF Errors, JournalSteps
    <2>. QED
      BY <2>1, <2>2
  <1>. QED
    BY <1>2, <1>3, <1>4, <1>5, <1>7, <1>8, <1>9, RecoveryStep DEF IInv, NewIsSaved

\* A recovery step that keeps the files: the entry is in place, or is one the
\* journal does not name.
LEMMA KeepOrRefuseStep ==
  ASSUME IInv, NEW p \in Procs, lock = p, pc[p] = "settle", RecoveryFrame, Keep(p) \/ Refuse(p)
  PROVE  IInv'
  <1>1. UNCHANGED <<files, faults>> /\ journal # NoJournal /\ pc[p] \in RecoverySteps
    BY DEF Keep, Refuse, IInv, JournalHeld, JournalSteps, RecoverySteps
  <1>2. LocalsOK' /\ CountersOK' /\ saved' = saved
    BY <1>1, FrameTypes DEF IInv, TypeOK, CountersOK
  <1>3. Advanced(p) /\ verdict' \in {"none", verdict} /\ pc'[p] \notin {"forget", "compare", "journal"}
    <2>1. CASE Keep(p)
      BY <1>1, <2>1, RecoveryGoesOn DEF Keep, RecoverySteps, JournalSteps
    <2>2. CASE Refuse(p)
      BY <1>1, <2>2, RecoveryEnds DEF Refuse, Errors, JournalSteps
    <2>. QED
      BY <2>1, <2>2
  <1>. QED
    BY <1>1, <1>2, <1>3, QuietStep DEF Advanced, IInv, NewIsSaved

LEMMA SettleStep == ASSUME IInv, NEW p \in Procs, Settle(p) PROVE IInv'
  <1>1. /\ lock = p /\ pc[p] = "settle" /\ RecoveryFrame
        /\ journal \in Journals
    BY DEF Settle, RecoveryFrame, IInv, JournalHeld, JournalSteps, TypeOK, FilesOK
  <1>2. /\ journal.login \in Gens /\ journal.previous \in Entries \cup {NoEntry}
        /\ Owner(journal.previous) = NoGen <=> journal.previous = NoEntry
    BY <1>1, NamesAssumption DEF Journals, Gens, Entries, Owner
  <1>3. CASE verdict = "new" /\ InstallNext(p)
    <2>1. CASE Keep(p) \/ Refuse(p)
      BY <1>1, <2>1, KeepOrRefuseStep
    <2>2. CASE SettleBy(p, [gen |-> journal.login, token |-> 0], "confirm")
      <3>1. [gen |-> journal.login, token |-> 0] \in Entries
        BY <1>2 DEF Entries
      <3>2. Owner([gen |-> journal.login, token |-> 0]) = journal.login
        BY <3>1, NamesAssumption DEF Owner
      <3>. QED
        BY <1>1, <1>3, <2>2, <3>1, <3>2, SettleByStep
    <2>. QED
      BY <1>3, <2>1, <2>2 DEF InstallNext
  <1>4. CASE RestorePrevious(p)
    <2>1. CASE Keep(p) \/ Refuse(p)
      BY <1>1, <2>1, KeepOrRefuseStep
    <2>2. CASE SettleBy(p, journal.previous, "confirm")
      BY <1>1, <1>2, <2>2, SettleByStep
    <2>3. CASE Owner(journal.previous) = NoGen /\ SettleBy(p, NoEntry, "forget")
      <3>1. Owner(NoEntry) = Owner(journal.previous)
        BY <2>3 DEF Owner
      <3>. QED
        BY <1>1, <2>3, <3>1, SettleByStep
    <2>. QED
      BY <1>4, <2>1, <2>2, <2>3 DEF RestorePrevious
  <1>. QED
    BY <1>3, <1>4 DEF Settle

\* Confirming makes the cache and the journal durable as they are seen.
LEMMA ConfirmStep == ASSUME IInv, NEW p \in Procs, Confirm(p) PROVE IInv'
  <1>1. /\ lock = p /\ pc[p] \in RecoverySteps /\ RecoveryFrame /\ journal # NoJournal
        /\ UNCHANGED <<resolved, config, configD, cache, journal>>
        /\ \/ cacheD' = cache /\ journalD' = journal
           \/ UNCHANGED <<cacheD, journalD>>
    BY DEF Confirm, RecoveryFrame, RecoverySteps, JournalSteps, IInv, JournalHeld
  <1>2. FilesOK' /\ SavedCovers' /\ FreshJournal' /\ Recoverable'
    BY <1>1 DEF IInv, TypeOK, FilesOK, SavedCovers, FreshJournal, Recoverable, Pending, Caches, Owner,
       RecoveryFrame
  <1>3. faults' \in Nat
    BY ChargeType DEF Confirm, IInv, TypeOK, CountersOK, Outcomes
  <1>4. /\ Advanced(p) /\ verdict' \in {"none", verdict}
        /\ pc'[p] \notin {"compare", "journal"}
        /\ pc'[p] = "forget" => cacheD' = cache
    <2>1. CASE Goto(p, "forget") /\ cacheD' = cache
      BY <1>1, <2>1, RecoveryGoesOn DEF RecoverySteps, JournalSteps
    <2>2. CASE Recovered(p, "changed") \/ Recovered(p, "uncertain")
      BY <1>1, <2>2, RecoveryEnds DEF Errors, JournalSteps
    <2>. QED
      BY <2>1, <2>2 DEF Confirm
  <1>. QED
    BY <1>1, <1>2, <1>3, <1>4, RecoveryStep DEF IInv, NewIsSaved

\* The journal is deleted only when one owner is left.
LEMMA ForgetStep == ASSUME IInv, NEW p \in Procs, Forget(p) PROVE IInv'
  <1>1. /\ lock = p /\ pc[p] = "forget" /\ pc[p] \in RecoverySteps /\ RecoveryFrame
        /\ journal # NoJournal /\ Owner(cache) = Owner(cacheD)
    BY DEF Forget, RecoveryFrame, RecoverySteps, JournalSteps, IInv, JournalHeld, OneOwner
  <1>2. PICK o \in Outcomes : /\ Charge(o) /\ ReplaceJournal(NoJournal, o)
                              /\ Recovered(p, StepError(IF o = "ok" THEN "none" ELSE o))
    BY DEF Forget
  <1>3. /\ UNCHANGED <<resolved, config, configD, cache>>
        /\ cacheD' \in {cache, cacheD} /\ journalD' \in {NoJournal, journalD}
        /\ IF o = "failed" THEN journal' = journal /\ journalD' = journalD /\ cacheD' = cacheD
           ELSE journal' = NoJournal
    BY <1>2 DEF ReplaceJournal, Outcomes
  <1>4. FilesOK' /\ SavedCovers'
    BY <1>1, <1>3 DEF IInv, TypeOK, FilesOK, SavedCovers, RecoveryFrame
  <1>5. FreshJournal'
    BY <1>1, <1>3 DEF IInv, FreshJournal, RecoveryFrame, Owner
  <1>6. Recoverable'
    BY <1>1, <1>3 DEF IInv, Recoverable, Pending, Caches, Owner
  <1>7. faults' \in Nat
    BY <1>2, ChargeType DEF IInv, TypeOK
  <1>8. /\ Advanced(p) /\ verdict' = "none" /\ pc'[p] \notin JournalSteps \cup {"journal"}
        /\ pc'[p] = "compare" => journal' = NoJournal
    <2>1. /\ StepError(IF o = "ok" THEN "none" ELSE o) \in Errors
          /\ o # "ok" => StepError(IF o = "ok" THEN "none" ELSE o) # "none"
      BY StepErrorType DEF Errors, Outcomes
    <2>. QED
      BY <1>1, <1>2, <1>3, <2>1, RecoveryEnds
  <1>9. Owner(cache') = Owner(cacheD')
    BY <1>1, <1>3 DEF Owner
  <1>. QED
    BY <1>1, <1>4, <1>5, <1>6, <1>7, <1>8, <1>9, RecoveryStep DEF JournalSteps

-----------------------------------------------------------------------------
(***************************************************************************)
(* The other steps that change no file.                                    *)
(***************************************************************************)
\* A command outside the recovery moves, or leaves the lock.
OutsideFrame(p) ==
  /\ UNCHANGED <<files, saved>> /\ LocalsOK' /\ CountersOK'
  /\ \A r \in Refreshers : r # p => gen'[r] = gen[r]

LEMMA GotoStep ==
  ASSUME IInv, NEW p \in Procs, pc[p] \notin RecoverySteps \cup {"done"}, OutsideFrame(p),
         NEW label \in Labels \ (RecoverySteps \cup {"cache", "save"}),
         label \in {"compare", "journal"} => journal = NoJournal,
         label \in Locked <=> lock = p,
         p \in Refreshers /\ label # "idle" => gen'[p] \in Gens,
         Goto(p, label)
  PROVE  IInv'
  <1>1. Control' /\ Moves(p, {label}) /\ resume' = resume /\ verdict' = verdict /\ lock' = lock
    BY NamesAssumption DEF IInv, TypeOK, Control, ControlOK, LockDiscipline, Goto, Moves
  <1>2. AloneOrHolder(p)
    BY <1>1 DEF AloneOrHolder, Moves, OutsideFrame, files
  <1>3. ~(p \in Logins \cap saved)
    BY DEF IInv, SavedLast
  <1>4. UNCHANGED <<files, saved>> /\ LocalsOK' /\ CountersOK'
    BY DEF OutsideFrame
  <1>5. pc'[p] \notin JournalSteps /\ pc'[p] \notin {"cache", "save", "forget"}
    BY <1>1 DEF Moves, RecoverySteps, JournalSteps
  <1>6. lock' \in Procs /\ verdict' = "new" => journal # NoJournal /\ journal.login \in saved
    BY <1>1 DEF IInv, NewIsSaved
  <1>. QED
    BY <1>1, <1>2, <1>3, <1>4, <1>5, <1>6, QuietStep DEF Moves

LEMMA ReleaseStep ==
  ASSUME IInv, NEW p \in Procs, pc[p] \notin RecoverySteps, lock = p, OutsideFrame(p),
         NEW next \in Labels \ Locked, NEW res, p \in Logins => res \in Results,
         p \in Refreshers /\ next # "idle" => gen'[p] \in Gens,
         Release(p, next, res)
  PROVE  IInv'
  <1>1. Control' /\ Moves(p, {next}) /\ resume' = "none" /\ verdict' = "none"
    BY ReleaseControl DEF IInv, TypeOK, Control
  <1>2. AloneOrHolder(p)
    BY <1>1 DEF AloneOrHolder, Moves, OutsideFrame
  <1>3. ~(p \in Logins \cap saved)
    BY DEF IInv, SavedLast, LockDiscipline, Locked
  <1>4. UNCHANGED <<files, saved>> /\ LocalsOK' /\ CountersOK'
    BY DEF OutsideFrame
  <1>5. pc'[p] \notin JournalSteps /\ pc'[p] \notin {"cache", "save", "forget", "compare", "journal"}
    BY <1>1 DEF Moves, Locked, JournalSteps
  <1>. QED
    BY <1>1, <1>2, <1>3, <1>4, <1>5, QuietStep DEF Moves

\* What a command reads of the configuration.
LEMMA ReadType ==
  ASSUME FilesOK, NEW p \in Procs
  PROVE  Read(p) \in [cfg : ConfigValues, target : Targets]
  BY PathOfAssumption DEF FilesOK, Read, ConfigAt

LEMMA AcquireLockStep == ASSUME IInv, NEW p \in Procs, AcquireLock(p) PROVE IInv'
  <1>. USE DEF IInv, TypeOK
  <1>1. /\ UNCHANGED <<files, gen, fresh, issued, saved, kept, faults, edits>> /\ lock = Free /\ lock' = p
        /\ pc[p] \in {"lock1", "lock2", "ready"}
        /\ frozen' = frozen \/ frozen' = [frozen EXCEPT ![p] = Read(p)]
        /\ pc' = [pc EXCEPT ![p] = "classify"] /\ verdict' = "none"
        /\ resume' \in {"check", "compare", "login", "built"}
        /\ result' = result \/ result' = [result EXCEPT ![p] = result[p]]
    BY DEF AcquireLock, Enter, StartRecovery
  <1>2. LocalsOK' /\ CountersOK'
    BY <1>1, ReadType DEF LocalsOK, CountersOK
  <1>3. Control'
    <2>1. result' \in [Logins -> Results]
      BY <1>1 DEF ControlOK
    <2>. QED
      BY <1>1, <2>1, NamesAssumption DEF Control, ControlOK, LockDiscipline, Labels, Locked
  <1>4. pc'[p] = "classify" /\ AloneOrHolder(p)
    BY <1>1 DEF AloneOrHolder, ControlOK, Labels
  <1>5. p \in Refreshers => gen'[p] \in Gens
    BY <1>1 DEF BuiltFor
  <1>6. ~(p \in Logins \cap saved)
    BY <1>1 DEF SavedLast, RecoverySteps, JournalSteps
  <1>. QED
    BY <1>1, <1>2, <1>3, <1>4, <1>5, <1>6, QuietStep DEF JournalSteps

LEMMA LockTimeoutStep == ASSUME IInv, NEW p \in Procs, LockTimeout(p) PROVE IInv'
  <1>. USE DEF IInv, TypeOK
  <1>1. /\ UNCHANGED <<files, lock, frozen, gen, fresh, verdict, resume, issued, saved, kept, faults, edits>>
        /\ pc[p] \in {"lock1", "lock2", "ready"} /\ pc' = [pc EXCEPT ![p] = Idle(p)]
        /\ result' = result \/ (p \in Logins /\ result' = [result EXCEPT ![p] = "failed"])
    BY DEF LockTimeout
  <1>2. LocalsOK' /\ CountersOK'
    BY <1>1 DEF LocalsOK, CountersOK
  <1>3. pc'[p] \in {"done", "idle"} /\ (p \in Refreshers => pc'[p] = "idle")
    BY <1>1, NamesAssumption DEF ControlOK, Idle
  <1>4. Control'
    <2>1. result' \in [Logins -> Results]
      BY <1>1 DEF ControlOK, Results
    <2>. QED
      BY <1>1, <1>3, <2>1, NamesAssumption DEF Control, ControlOK, LockDiscipline, Labels, Locked
  <1>5. AloneOrHolder(p)
    BY <1>1, <1>3 DEF AloneOrHolder, Labels, files
  <1>6. ~(p \in Logins \cap saved)
    BY <1>1 DEF SavedLast, RecoverySteps, JournalSteps
  <1>. QED
    BY <1>1, <1>2, <1>3, <1>4, <1>5, <1>6, QuietStep DEF JournalSteps, NewIsSaved

LEMMA FreezeStep == ASSUME IInv, NEW l \in Logins, Freeze(l) PROVE IInv'
  <1>1. /\ pc[l] = "start" /\ Goto(l, "lock1") /\ lock # l
        /\ UNCHANGED <<files, gen, fresh, issued, saved, kept, faults, edits>>
        /\ frozen' = [frozen EXCEPT ![l] = Read(l)]
    BY DEF Freeze, IInv, LockDiscipline, Locked, Procs
  <1>2. OutsideFrame(l)
    BY <1>1, ReadType DEF OutsideFrame, IInv, TypeOK, LocalsOK, CountersOK, Procs
  <1>. QED
    BY <1>1, <1>2, GotoStep, NamesAssumption DEF Procs, Labels, Locked, RecoverySteps, JournalSteps

LEMMA AuthorizeStep == ASSUME IInv, NEW l \in Logins, Authorize(l) PROVE IInv'
  <1>1. /\ pc[l] = "login" /\ lock # l /\ l \in Procs /\ l \notin Refreshers
        /\ UNCHANGED <<files, frozen, gen, fresh, issued, saved, kept, faults, edits>>
    BY NamesAssumption DEF Authorize, IInv, LockDiscipline, Locked, Procs
  <1>2. OutsideFrame(l)
    BY <1>1 DEF OutsideFrame, IInv, TypeOK, LocalsOK, CountersOK
  <1>3. CASE Goto(l, "lock2")
    BY <1>1, <1>2, <1>3, GotoStep DEF Labels, Locked, RecoverySteps, JournalSteps
  <1>4. CASE /\ pc' = [pc EXCEPT ![l] = "done"] /\ result' = [result EXCEPT ![l] = "failed"]
             /\ UNCHANGED <<lock, verdict, resume>>
    <2>1. pc'[l] = "done" /\ AloneOrHolder(l)
      BY <1>1, <1>4 DEF AloneOrHolder, IInv, TypeOK, ControlOK, Labels, files
    <2>2. Control'
      BY <1>1, <1>4, NamesAssumption DEF IInv, TypeOK, Control, ControlOK, LockDiscipline, Labels, Locked, Results
    <2>. QED
      BY <1>1, <1>2, <1>4, <2>1, <2>2, QuietStep DEF OutsideFrame, JournalSteps, IInv, NewIsSaved
  <1>. QED
    BY <1>3, <1>4 DEF Authorize

LEMMA CompareStep == ASSUME IInv, NEW l \in Logins, Compare(l) PROVE IInv'
  <1>1. /\ pc[l] = "compare" /\ lock = l /\ l \in Procs /\ l \notin Refreshers /\ journal = NoJournal
        /\ UNCHANGED <<files, frozen, gen, fresh, issued, saved, kept, faults, edits>>
        /\ Goto(l, "journal") \/ Release(l, "done", "changed")
    BY NamesAssumption DEF Compare, IInv, NoJournalYet, Procs
  <1>2. OutsideFrame(l)
    BY <1>1 DEF OutsideFrame, IInv, TypeOK, LocalsOK, CountersOK
  <1>3. CASE Goto(l, "journal")
    BY <1>1, <1>2, <1>3, GotoStep DEF Labels, Locked, RecoverySteps, JournalSteps
  <1>4. CASE Release(l, "done", "changed")
    BY <1>1, <1>2, <1>4, ReleaseStep DEF Labels, Locked, RecoverySteps, JournalSteps, Results
  <1>. QED
    BY <1>1, <1>3, <1>4

LEMMA ConstructStep == ASSUME IInv, NEW r \in Refreshers, Construct(r) PROVE IInv'
  <1>1. /\ pc[r] = "idle" /\ lock # r /\ r \in Procs /\ Goto(r, "lock1")
        /\ UNCHANGED <<files, frozen, fresh, issued, saved, kept, faults, edits>>
        /\ ConfigAt(PathOf[r]) \in Gens /\ gen' = [gen EXCEPT ![r] = ConfigAt(PathOf[r])]
    BY DEF Construct, IInv, LockDiscipline, Locked, Procs
  <1>2. OutsideFrame(r) /\ gen'[r] \in Gens
    BY <1>1 DEF OutsideFrame, IInv, TypeOK, LocalsOK, CountersOK
  <1>. QED
    BY <1>1, <1>2, GotoStep DEF Labels, Locked, RecoverySteps, JournalSteps

LEMMA BuiltStep == ASSUME IInv, NEW r \in Refreshers, Built(r) PROVE IInv'
  <1>1. /\ pc[r] = "built" /\ lock # r /\ r \in Procs /\ gen[r] \in Gens
        /\ UNCHANGED <<files, frozen, gen, fresh, issued, saved, kept, faults, edits>>
        /\ Goto(r, "ready") \/ Goto(r, "idle")
    BY DEF Built, IInv, LockDiscipline, Locked, Procs, BuiltFor
  <1>2. OutsideFrame(r)
    BY <1>1 DEF OutsideFrame, IInv, TypeOK, LocalsOK, CountersOK
  <1>. QED
    BY <1>1, <1>2, GotoStep DEF Labels, Locked, RecoverySteps, JournalSteps

LEMMA CheckSourceStep == ASSUME IInv, NEW r \in Refreshers, CheckSource(r) PROVE IInv'
  <1>1. /\ pc[r] = "check" /\ lock = r /\ r \in Procs /\ r \notin Logins /\ gen[r] \in Gens
        /\ UNCHANGED <<files, frozen, gen, fresh, issued, saved, kept, faults, edits>>
        /\ \/ Goto(r, "rotate") \/ Goto(r, "exchange")
           \/ Release(r, "ready", "none") \/ Release(r, "idle", "none")
    BY NamesAssumption DEF CheckSource, IInv, Procs, BuiltFor
  <1>2. OutsideFrame(r)
    BY <1>1 DEF OutsideFrame, IInv, TypeOK, LocalsOK, CountersOK
  <1>3. CASE Goto(r, "rotate") \/ Goto(r, "exchange")
    BY <1>1, <1>2, <1>3, GotoStep DEF Labels, Locked, RecoverySteps, JournalSteps
  <1>4. CASE Release(r, "ready", "none") \/ Release(r, "idle", "none")
    BY <1>1, <1>2, <1>4, ReleaseStep DEF Labels, Locked, RecoverySteps, JournalSteps
  <1>. QED
    BY <1>1, <1>3, <1>4

\* A rotation changes the token the service accepts and the one in memory.
LEMMA RotateTokenStep == ASSUME IInv, NEW r \in Refreshers, RotateToken(r) PROVE IInv'
  <1>1. /\ pc[r] = "rotate" /\ lock = r /\ r \in Procs /\ r \notin Logins /\ gen[r] \in Gens
        /\ UNCHANGED <<files, frozen, gen, saved, kept, edits>>
        /\ Goto(r, "persist") \/ Release(r, "idle", "none")
    BY NamesAssumption DEF RotateToken, IInv, Procs, BuiltFor
  <1>2. faults' \in Nat
    BY ChargeType DEF RotateToken, IInv, TypeOK, CountersOK, Outcomes
  <1>3. issued[gen[r]] + 1 \in Nat
    BY <1>1 DEF IInv, TypeOK, CountersOK
  <1>4. /\ issued' = issued \/ issued' = [issued EXCEPT ![gen[r]] = issued[gen[r]] + 1]
        /\ fresh' = fresh \/ fresh' = [fresh EXCEPT ![r] = issued[gen[r]] + 1]
    BY DEF RotateToken
  <1>5. OutsideFrame(r)
    BY <1>1, <1>2, <1>3, <1>4 DEF OutsideFrame, IInv, TypeOK, LocalsOK, CountersOK
  <1>6. CASE Goto(r, "persist")
    BY <1>1, <1>5, <1>6, GotoStep DEF Labels, Locked, RecoverySteps, JournalSteps
  <1>7. CASE Release(r, "idle", "none")
    BY <1>1, <1>5, <1>7, ReleaseStep DEF Labels, Locked, RecoverySteps, JournalSteps
  <1>. QED
    BY <1>1, <1>6, <1>7

LEMMA VerifySourceStep == ASSUME IInv, NEW r \in Refreshers, VerifySource(r) PROVE IInv'
  <1>1. /\ pc[r] = "verify" /\ lock = r /\ r \in Procs /\ r \notin Logins /\ gen[r] \in Gens
        /\ UNCHANGED <<files, frozen, gen, fresh, issued, saved, kept, faults, edits>>
        /\ Goto(r, "exchange") \/ Release(r, "idle", "none")
    BY NamesAssumption DEF VerifySource, IInv, Procs, BuiltFor
  <1>2. OutsideFrame(r)
    BY <1>1 DEF OutsideFrame, IInv, TypeOK, LocalsOK, CountersOK
  <1>. QED
    BY <1>1, <1>2, GotoStep, ReleaseStep DEF Labels, Locked, RecoverySteps, JournalSteps

LEMMA QuitStep == ASSUME IInv, NEW r \in Refreshers, Quit(r) PROVE IInv'
  <1>1. /\ pc[r] = "ready" /\ lock # r /\ r \in Procs /\ Goto(r, "idle")
        /\ UNCHANGED <<files, frozen, gen, fresh, issued, saved, kept, faults, edits>>
    BY DEF Quit, IInv, LockDiscipline, Locked, Procs
  <1>2. OutsideFrame(r)
    BY <1>1 DEF OutsideFrame, IInv, TypeOK, LocalsOK, CountersOK
  <1>. QED
    BY <1>1, <1>2, GotoStep DEF Labels, Locked, RecoverySteps, JournalSteps

\* A process that dies leaves the files and its lock.
LEMMA CrashStep == ASSUME IInv, NEW p \in Procs, Crash(p) PROVE IInv'
  <1>1. /\ UNCHANGED <<files, frozen, gen, issued, saved, kept, edits>>
        /\ pc' = [pc EXCEPT ![p] = Idle(p)] /\ fresh' = [fresh EXCEPT ![p] = 0]
        /\ result' = result \/ (p \in Logins /\ result' = [result EXCEPT ![p] = "crashed"])
        /\ IF lock = p THEN lock' = Free /\ verdict' = "none" /\ resume' = "none"
                       ELSE UNCHANGED <<lock, verdict, resume>>
    BY DEF Crash
  <1>2. LocalsOK' /\ CountersOK'
    <2>1. faults' \in Nat
      BY ChargeType DEF Crash, IInv, TypeOK, Outcomes
    <2>. QED
      BY <1>1, <2>1 DEF IInv, TypeOK, LocalsOK, CountersOK
  <1>3. pc'[p] \in {"done", "idle"} /\ (p \in Refreshers => pc'[p] = "idle") /\ (p \in Logins => pc'[p] = "done")
    BY <1>1, NamesAssumption DEF IInv, TypeOK, ControlOK, Idle
  <1>4. Control'
    <2>1. result' \in [Logins -> Results]
      BY <1>1 DEF IInv, TypeOK, ControlOK, Results
    <2>. QED
      BY <1>1, <1>3, <2>1, NamesAssumption DEF IInv, TypeOK, Control, ControlOK, LockDiscipline, Labels, Locked
  <1>5. AloneOrHolder(p)
    BY <1>1, <1>3 DEF AloneOrHolder, Labels, files, IInv, TypeOK, ControlOK
  <1>. QED
    BY <1>1, <1>2, <1>3, <1>4, <1>5, QuietStep DEF JournalSteps, IInv, NewIsSaved

-----------------------------------------------------------------------------
(***************************************************************************)
(* The steps of a login and of a refresh that change files.                *)
(***************************************************************************)
\* A holder outside the recovery that changes files.
LEMMA HolderStep ==
  ASSUME IInv, NEW p \in Procs, lock = p, AloneOrHolder(p), saved' \subseteq saved \cup {p},
         Control', FilesOK', LocalsOK', CountersOK', SavedCovers', FreshJournal', Recoverable',
         pc'[p] \notin JournalSteps \cup {"compare", "journal"},
         pc'[p] \in {"cache", "save"} => journal' # NoJournal /\ journal'.login = p /\ journalD' = journal',
         p \in Refreshers /\ pc'[p] # "idle" => gen'[p] \in Gens,
         p \in Logins \cap saved' => pc'[p] = "done" \/ (pc'[p] \in RecoverySteps /\ resume' \in {"finish", "abort"}),
         verdict' = "new" => journal' # NoJournal /\ journal'.login \in saved',
         journal' = NoJournal => Owner(cache') = Owner(cacheD')
  PROVE  IInv'
  <1>1. JournalHeld' /\ BuiltFor' /\ OwnJournal' /\ NoJournalYet' /\ SavedLast'
    BY Progress
  <1>2. NewIsSaved'
    BY DEF NewIsSaved
  <1>3. OneOwner'
    <2>1. \A q \in Procs : q # p => pc'[q] = pc[q] /\ pc[q] \notin Locked
      BY DEF AloneOrHolder, IInv, TypeOK, ControlOK, LockDiscipline
    <2>. QED
      BY <2>1 DEF OneOwner, Locked, Owner, JournalSteps
  <1>. QED
    BY <1>1, <1>2, <1>3 DEF IInv, TypeOK, Control

\* The journal records the entry in place.
LEMMA CommitJournalStep == ASSUME IInv, NEW l \in Logins, CommitJournal(l) PROVE IInv'
  <1>1. /\ pc[l] = "journal" /\ lock = l /\ l \in Procs /\ l \notin Refreshers /\ journal = NoJournal
        /\ UNCHANGED <<frozen, gen, fresh, issued, saved, kept, edits>>
        /\ Owner(cache) = Owner(cacheD) /\ l \notin saved /\ verdict # "new"
    BY NamesAssumption DEF CommitJournal, IInv, NoJournalYet, Procs, OneOwner, SavedLast, RecoverySteps,
       JournalSteps, NewIsSaved
  <1> DEFINE j == [login |-> l, path |-> PathOf[l], target |-> frozen[l].target,
                   old |-> frozen[l].cfg, previous |-> cache]
  <1>2. PICK o \in Outcomes : /\ Charge(o) /\ ReplaceJournal(j, o)
                              /\ IF o = "ok" THEN Goto(l, "cache") ELSE Release(l, "done", o)
    BY DEF CommitJournal, Previous
  <1>3. j \in Journals /\ j # NoJournal
    BY <1>1, NamesAssumption, PathOfAssumption DEF IInv, TypeOK, FilesOK, LocalsOK, Journals
  <1>. HIDE DEF j
  <1>4. j.login = l /\ j.previous = cache
    BY DEF j
  <1>5. /\ UNCHANGED <<resolved, config, configD, cache>>
        /\ cacheD' \in {cache, cacheD} /\ journal' \in {journal, j} /\ journalD' \in {journalD, j}
        /\ o = "ok" => journal' = j /\ journalD' = j
        /\ o # "ok" => journalD' = journalD
    BY <1>2 DEF ReplaceJournal, Outcomes
  <1>6. Owner(cache') = Owner(cache) /\ Owner(cacheD') = Owner(cache)
    BY <1>1, <1>5 DEF Owner
  <1>7. FilesOK' /\ SavedCovers'
    BY <1>1, <1>3, <1>5 DEF IInv, TypeOK, FilesOK, SavedCovers
  <1>8. FreshJournal'
    BY <1>1, <1>4, <1>5, <1>6 DEF FreshJournal, Owner
  <1>9. Recoverable'
    BY <1>1, <1>4, <1>5, <1>6 DEF IInv, Recoverable, Pending, Caches, Owner
  <1>10. LocalsOK' /\ CountersOK'
    <2>1. faults' \in Nat
      BY <1>2, ChargeType DEF IInv, TypeOK
    <2>. QED
      BY <1>1, <2>1 DEF IInv, TypeOK, LocalsOK, CountersOK
  <1>11. /\ Control' /\ verdict' # "new" /\ Moves(l, {"cache", "done"})
         /\ pc'[l] = "cache" => o = "ok"
    <2>1. CASE o = "ok"
      BY <1>1, <1>2, <2>1, GotoControl DEF IInv, TypeOK, Control, Labels, Locked, Moves
    <2>2. CASE o # "ok"
      <3>1. o \in Results
        BY <2>2 DEF Outcomes, Results
      <3>. QED
        BY <1>1, <1>2, <2>2, <3>1, ReleaseControl DEF IInv, TypeOK, Control, Labels, Locked, Moves
    <2>. QED
      BY <2>1, <2>2
  <1>12. AloneOrHolder(l)
    BY <1>1, <1>11 DEF AloneOrHolder, Moves, Labels
  <1>. QED
    BY <1>1, <1>3, <1>4, <1>5, <1>6, <1>7, <1>8, <1>9, <1>10, <1>11, <1>12, HolderStep DEF Moves, JournalSteps

\* The new entry is the one its own journal installs.
LEMMA CommitCacheStep == ASSUME IInv, NEW l \in Logins, CommitCache(l) PROVE IInv'
  <1>1. /\ pc[l] = "cache" /\ lock = l /\ l \in Procs /\ l \notin Refreshers
        /\ journal # NoJournal /\ journal.login = l /\ journalD = journal
        /\ UNCHANGED <<frozen, gen, fresh, issued, saved, kept, edits>>
        /\ l \notin saved /\ verdict # "new"
    BY NamesAssumption DEF CommitCache, IInv, OwnJournal, Procs, SavedLast, RecoverySteps, JournalSteps, NewIsSaved
  <1> DEFINE e == [gen |-> l, token |-> 0]
  <1>2. e \in Entries /\ e.gen = l /\ e # NoEntry
    BY NamesAssumption DEF Entries, Gens
  <1>. HIDE DEF e
  <1>3. /\ UNCHANGED <<resolved, config, configD, journal>> /\ journalD' = journal
        /\ cache' \in {cache, e} /\ cacheD' \in {cacheD, e}
    BY <1>1 DEF CommitCache, ReplaceCache, files, e
  <1>4. FilesOK' /\ SavedCovers' /\ FreshJournal'
    BY <1>1, <1>2, <1>3 DEF IInv, TypeOK, FilesOK, SavedCovers, FreshJournal
  <1>5. Recoverable'
    BY <1>1, <1>2, <1>3 DEF IInv, Recoverable, Pending, Caches, Owner
  <1>6. faults' \in Nat
    BY ChargeType DEF CommitCache, IInv, TypeOK, CountersOK
  <1>7. LocalsOK' /\ CountersOK'
    BY <1>1, <1>6 DEF IInv, TypeOK, LocalsOK, CountersOK
  <1>8. /\ Control' /\ verdict' # "new" /\ Moves(l, {"save", "classify"})
    <2>1. CASE Goto(l, "save")
      BY <1>1, <2>1, GotoControl DEF IInv, TypeOK, Control, Labels, Locked, Moves
    <2>2. CASE (\E res \in Results : StartRecovery(l, "abort", res)) /\ UNCHANGED lock
      BY <1>1, <2>2, NamesAssumption
         DEF IInv, TypeOK, Control, ControlOK, LockDiscipline, StartRecovery, Labels, Locked, Moves
    <2>. QED
      BY <1>1, <2>1, <2>2 DEF CommitCache, Outcomes, Results, files
  <1>9. AloneOrHolder(l)
    BY <1>1, <1>8 DEF AloneOrHolder, Moves, Labels
  <1>. QED
    BY <1>1, <1>3, <1>4, <1>5, <1>7, <1>8, <1>9, HolderStep DEF Moves, JournalSteps, RecoverySteps

\* A login is saved while its journal is durable, and goes on to its final
\* recovery or ends.
LEMMA SaveConfigStep == ASSUME IInv, NEW l \in Logins, SaveConfig(l) PROVE IInv'
  <1>1. /\ pc[l] = "save" /\ lock = l /\ l \in Procs /\ l \notin Refreshers
        /\ journal # NoJournal /\ journalD = journal
        /\ UNCHANGED <<resolved, cache, cacheD, journal, journalD, frozen, gen, fresh, issued, kept, edits>>
        /\ l \in Gens /\ journal.login = l /\ l \notin saved /\ verdict # "new"
    BY NamesAssumption DEF SaveConfig, IInv, OwnJournal, Procs, Gens, SavedLast, RecoverySteps, JournalSteps,
       NewIsSaved
  <1> DEFINE t == frozen[l].target
  <1>2. t \in Targets
    BY <1>1 DEF IInv, TypeOK, LocalsOK
  <1>. HIDE DEF t
  <1>3. \/ UNCHANGED <<config, configD, saved>>
        \/ /\ saved' = saved \cup {l}
           /\ config' = [config EXCEPT ![t] = l]
           /\ configD' = configD \/ configD' = [configD EXCEPT ![t] = l]
    BY DEF SaveConfig, Outcomes, t
  <1>4. FilesOK'
    BY <1>1, <1>2, <1>3 DEF IInv, TypeOK, FilesOK, ConfigValues
  <1>5. SavedCovers'
    BY <1>1, <1>2, <1>3 DEF IInv, TypeOK, FilesOK, SavedCovers
  <1>6. FreshJournal' /\ Recoverable'
    BY <1>1 DEF IInv, FreshJournal, Recoverable, Pending, Caches, Owner
  <1>7. LocalsOK' /\ CountersOK'
    <2>1. faults' \in Nat
      BY ChargeType DEF SaveConfig, IInv, TypeOK, CountersOK
    <2>. QED
      BY <1>1, <1>3, <2>1 DEF IInv, TypeOK, LocalsOK, CountersOK
  <1>8. /\ Control' /\ verdict' = "none"
        /\ pc'[l] = "done" \/ (pc'[l] = "classify" /\ resume' \in {"finish", "abort"})
        /\ Moves(l, {"done", "classify"})
    <2>1. CASE Release(l, "done", "uncertain")
      BY <1>1, <2>1, ReleaseControl DEF IInv, TypeOK, Control, Labels, Locked, Moves, Results
    <2>2. CASE (\E ret \in {"finish", "abort"}, res \in Results : StartRecovery(l, ret, res)) /\ UNCHANGED lock
      BY <1>1, <2>2, NamesAssumption
         DEF IInv, TypeOK, Control, ControlOK, LockDiscipline, StartRecovery, Labels, Locked, Moves
    <2>. QED
      BY <1>1, <2>1, <2>2 DEF SaveConfig, Outcomes, Results
  <1>9. AloneOrHolder(l)
    BY <1>1, <1>8 DEF AloneOrHolder, Moves, Labels
  <1>10. saved' \subseteq saved \cup {l}
    BY <1>3
  <1>. QED
    BY <1>1, <1>4, <1>5, <1>6, <1>7, <1>8, <1>9, <1>10, HolderStep DEF Moves, JournalSteps, RecoverySteps

\* A refresher replaces the entry of the generation it was built for by
\* another entry of that generation.
LEMMA SameOwnerStep ==
  ASSUME IInv, NEW r \in Refreshers, pc[r] \in {"persist", "exchange"}, lock = r, Owner(cache) = gen[r],
         NEW e \in Entries, Owner(e) = gen[r], NEW o \in Outcomes, ReplaceCache(e, o),
         UNCHANGED <<gen, saved>>, LocalsOK', CountersOK',
         Goto(r, "verify") \/ Release(r, "idle", "none") \/ Release(r, "ready", "none")
  PROVE  IInv'
  <1>1. /\ r \in Procs /\ r \notin Logins /\ gen[r] \in Gens
        /\ UNCHANGED <<resolved, config, configD, journal>>
        /\ cache' \in {cache, e} /\ cacheD' \in {cacheD, e} /\ journalD' \in {journal, journalD}
        /\ o = "ok" => cacheD' = cache' /\ journalD' = journal
        /\ o # "ok" => cacheD' = cacheD /\ journalD' = journalD
    BY NamesAssumption DEF IInv, Procs, BuiltFor, ReplaceCache, Outcomes
  <1>2. Owner(cache') = Owner(cache) /\ Owner(cacheD') \in {Owner(cacheD), Owner(cache)}
    BY <1>1 DEF Owner
  <1>3. FilesOK' /\ SavedCovers'
    BY <1>1 DEF IInv, TypeOK, FilesOK, SavedCovers
  <1>4. FreshJournal'
    BY <1>1, <1>2 DEF IInv, FreshJournal, Owner
  <1>5. Recoverable'
    BY <1>1, <1>2 DEF IInv, Recoverable, Pending, Caches, Owner
  <1>6. Control' /\ verdict' \in {verdict, "none"} /\ Moves(r, {"verify", "ready", "idle"})
    BY <1>1, GotoControl, ReleaseControl DEF IInv, TypeOK, Control, Labels, Locked, Moves
  <1>7. AloneOrHolder(r)
    BY <1>1, <1>6 DEF AloneOrHolder, Moves, Labels
  <1>8. journal' = NoJournal => Owner(cache') = Owner(cacheD')
    BY <1>1, <1>2 DEF IInv, OneOwner
  <1>9. verdict' = "new" => journal' # NoJournal /\ journal'.login \in saved'
    BY <1>1, <1>6 DEF IInv, NewIsSaved
  <1>. QED
    BY <1>1, <1>3, <1>4, <1>5, <1>6, <1>7, <1>8, <1>9, HolderStep DEF Moves, JournalSteps

\* A rotated token never changes the owner of the entry.
LEMMA PersistTokenStep == ASSUME IInv, NEW r \in Refreshers, PersistToken(r) PROVE IInv'
  <1>1. /\ pc[r] = "persist" /\ lock = r /\ r \in Procs /\ r \notin Logins /\ gen[r] \in Gens
        /\ UNCHANGED <<frozen, gen, issued, saved, edits>>
        /\ fresh' = [fresh EXCEPT ![r] = 0]
    BY NamesAssumption DEF PersistToken, IInv, Procs, BuiltFor
  <1>2. CASE Owner(cache) # gen[r]
    <2>1. UNCHANGED <<files, kept, faults>> /\ Release(r, "idle", "none")
      BY <1>2 DEF PersistToken
    <2>2. OutsideFrame(r)
      BY <1>1, <2>1 DEF OutsideFrame, IInv, TypeOK, LocalsOK, CountersOK
    <2>. QED
      BY <1>1, <2>1, <2>2, ReleaseStep DEF Labels, Locked, RecoverySteps, JournalSteps
  <1>3. CASE Owner(cache) = gen[r]
    <2> DEFINE e == [gen |-> gen[r], token |-> fresh[r]]
    <2>1. PICK o \in Outcomes :
             /\ Charge(o) /\ ReplaceCache(e, o)
             /\ kept' = IF o = "ok" THEN [kept EXCEPT ![gen[r]] = fresh[r]] ELSE kept
             /\ IF o = "ok" THEN Goto(r, "verify") ELSE Release(r, "idle", "none")
      BY <1>3 DEF PersistToken
    <2>2. e \in Entries /\ Owner(e) = gen[r] /\ fresh[r] \in Nat
      BY <1>1, NamesAssumption DEF Entries, Owner, IInv, TypeOK, LocalsOK
    <2>3. LocalsOK' /\ CountersOK'
      <3>1. faults' \in Nat
        BY <2>1, ChargeType DEF IInv, TypeOK
      <3>2. kept' \in [Gens -> Nat]
        BY <1>1, <2>1, <2>2 DEF IInv, TypeOK, CountersOK
      <3>. QED
        BY <1>1, <3>1, <3>2 DEF IInv, TypeOK, LocalsOK, CountersOK
    <2>. HIDE DEF e
    <2>. QED
      BY <1>1, <1>3, <2>1, <2>2, <2>3, SameOwnerStep
  <1>. QED
    BY <1>2, <1>3

LEMMA StoreCredentialStep == ASSUME IInv, NEW r \in Refreshers, StoreCredential(r) PROVE IInv'
  <1>1. /\ pc[r] = "exchange" /\ lock = r /\ r \in Procs /\ r \notin Logins /\ gen[r] \in Gens
        /\ UNCHANGED <<frozen, gen, fresh, issued, saved, edits>>
    BY NamesAssumption DEF StoreCredential, IInv, Procs, BuiltFor
  <1>2. CASE Release(r, "idle", "none") /\ UNCHANGED <<files, kept, faults>>
    <2>1. OutsideFrame(r)
      BY <1>1, <1>2 DEF OutsideFrame, IInv, TypeOK, LocalsOK, CountersOK
    <2>. QED
      BY <1>1, <1>2, <2>1, ReleaseStep DEF Labels, Locked, RecoverySteps, JournalSteps
  <1>3. ASSUME Owner(cache) = gen[r], NEW o \in Outcomes, Charge(o), ReplaceCache(cache, o),
               kept' = IF o = "ok" THEN [kept EXCEPT ![gen[r]] = cache.token] ELSE kept,
               Release(r, IF o = "ok" THEN "ready" ELSE "idle", "none")
        PROVE  IInv'
    <2>1. cache \in Entries /\ cache.token \in Nat
      BY <1>1, <1>3, NamesAssumption DEF IInv, TypeOK, FilesOK, Owner, Entries
    <2>2. LocalsOK' /\ CountersOK'
      <3>1. faults' \in Nat
        BY <1>3, ChargeType DEF IInv, TypeOK
      <3>2. kept' \in [Gens -> Nat]
        BY <1>1, <1>3, <2>1 DEF IInv, TypeOK, CountersOK
      <3>. QED
        BY <1>1, <3>1, <3>2 DEF IInv, TypeOK, LocalsOK, CountersOK
    <2>. QED
      BY <1>1, <1>3, <2>1, <2>2, SameOwnerStep
  <1>. QED
    BY <1>2, <1>3 DEF StoreCredential

-----------------------------------------------------------------------------
(***************************************************************************)
(* The steps of the environment.                                           *)
(***************************************************************************)
LEMMA PowerLossStep == ASSUME IInv, PowerLoss PROVE IInv'
  <1>1. /\ UNCHANGED <<resolved, frozen, gen, issued, saved, kept, edits>>
        /\ config' \in [Targets -> ConfigValues]
        /\ \A t \in Targets : config'[t] \in {config[t], configD[t]}
        /\ cache' \in {cache, cacheD} /\ journal' \in {journal, journalD}
        /\ configD' = config' /\ cacheD' = cache' /\ journalD' = journal'
        /\ lock' = Free /\ verdict' = "none" /\ resume' = "none"
        /\ pc' = [p \in Procs |-> IF pc[p] = "start" THEN "start" ELSE Idle(p)]
        /\ result' = [l \in Logins |-> IF pc[l] \in {"start", "done"} THEN result[l] ELSE "crashed"]
        /\ fresh' = [p \in Procs |-> 0]
    BY DEF PowerLoss
  <1>2. FilesOK' /\ SavedCovers' /\ FreshJournal' /\ Recoverable' /\ OneOwner'
    BY <1>1 DEF IInv, TypeOK, FilesOK, SavedCovers, FreshJournal, Recoverable, OneOwner, Pending, Caches, Owner
  <1>3. LocalsOK' /\ CountersOK'
    <2>1. faults' \in Nat
      BY ChargeType DEF PowerLoss, IInv, TypeOK, Outcomes
    <2>. QED
      BY <1>1, <2>1 DEF IInv, TypeOK, LocalsOK, CountersOK
  <1>4. \A p \in Procs : pc'[p] \in {"start", "idle", "done"}
    BY <1>1 DEF Idle
  <1>5. ControlOK'
    <2>1. pc' \in [Procs -> Labels]
      BY <1>1 DEF Idle, Labels
    <2>2. result' \in [Logins -> Results]
      BY <1>1 DEF IInv, TypeOK, ControlOK, Results
    <2>. QED
      BY <1>1, <2>1, <2>2 DEF ControlOK
  <1>6. LockDiscipline' /\ NewIsSaved'
    BY <1>1, <1>4, NamesAssumption DEF LockDiscipline, Locked, NewIsSaved
  <1>7. JournalHeld' /\ OwnJournal' /\ NoJournalYet'
    BY <1>4 DEF JournalHeld, JournalSteps, OwnJournal, NoJournalYet, Procs
  <1>8. BuiltFor'
    BY <1>1, NamesAssumption DEF IInv, BuiltFor, Idle, Procs
  <1>9. SavedLast'
    BY <1>1 DEF IInv, SavedLast, Idle, Procs, RecoverySteps, JournalSteps
  <1>. QED
    BY <1>2, <1>3, <1>5, <1>6, <1>7, <1>8, <1>9 DEF IInv, TypeOK

\* Edits bring only logins that were saved before.
LEMMA EditStep == ASSUME IInv, EditConfig \/ Relink PROVE IInv'
  <1>1. UNCHANGED <<cache, cacheD, journal, journalD, lock, locals, issued, saved, kept, faults>> /\ edits' = edits + 1
    BY DEF EditConfig, Relink
  <1>2. FilesOK' /\ SavedCovers'
    <2>1. CASE EditConfig
      <3>1. PICK t \in Targets, v \in Foreign \cup saved :
               /\ config' = [config EXCEPT ![t] = v] /\ configD' = [configD EXCEPT ![t] = v]
        BY <2>1 DEF EditConfig
      <3>2. v \in ConfigValues
        BY DEF IInv, TypeOK, CountersOK, ConfigValues
      <3>. QED
        BY <1>1, <2>1, <3>1, <3>2 DEF EditConfig, IInv, TypeOK, FilesOK, SavedCovers
    <2>2. CASE Relink
      BY <1>1, <2>2 DEF Relink, IInv, TypeOK, FilesOK, SavedCovers
    <2>. QED
      BY <2>1, <2>2
  <1>3. ControlOK' /\ LocalsOK' /\ CountersOK'
    BY <1>1 DEF IInv, TypeOK, ControlOK, LocalsOK, CountersOK, locals
  <1>4. LockDiscipline' /\ JournalHeld' /\ BuiltFor' /\ OwnJournal' /\ NoJournalYet'
    BY <1>1 DEF IInv, LockDiscipline, JournalHeld, BuiltFor, OwnJournal, NoJournalYet, locals
  <1>5. FreshJournal' /\ SavedLast' /\ NewIsSaved' /\ OneOwner' /\ Recoverable'
    BY <1>1 DEF IInv, FreshJournal, SavedLast, NewIsSaved, OneOwner, Recoverable, Pending, Caches, Owner, locals
  <1>. QED
    BY <1>2, <1>3, <1>4, <1>5 DEF IInv, TypeOK

-----------------------------------------------------------------------------
(***************************************************************************)
(* The theorems.                                                           *)
(***************************************************************************)
LEMMA InitInvariant == Init => IInv
  <1>. SUFFICES ASSUME Init PROVE IInv
    OBVIOUS
  <1>. USE NamesAssumption DEF Init
  <1>1. FilesOK
    <2>1. OldGens \subseteq Gens /\ Foreign \cup OldGens \subseteq ConfigValues
      BY DEF Gens, ConfigValues
    <2>2. [gen : OldGens, token : {0}] \subseteq Entries
      BY <2>1 DEF Entries
    <2>. QED
      BY <2>1, <2>2 DEF FilesOK
  <1>2. ControlOK
    BY DEF ControlOK, Labels, Results
  <1>3. LocalsOK /\ CountersOK
    BY <1>1, ReadType DEF LocalsOK, CountersOK, Gens
  <1>4. \A p \in Procs : pc[p] \in {"start", "idle"}
    OBVIOUS
  <1>5. LockDiscipline /\ NewIsSaved
    BY <1>4 DEF LockDiscipline, Locked, NewIsSaved
  <1>6. JournalHeld /\ OwnJournal /\ NoJournalYet
    BY <1>4 DEF JournalHeld, JournalSteps, OwnJournal, NoJournalYet, Procs
  <1>7. BuiltFor
    BY DEF BuiltFor, Procs
  <1>8. SavedLast /\ SavedCovers /\ FreshJournal /\ OneOwner /\ Recoverable
    BY DEF SavedLast, SavedCovers, FreshJournal, OneOwner, Recoverable, Pending
  <1>. QED
    BY <1>1, <1>2, <1>3, <1>5, <1>6, <1>7, <1>8 DEF IInv, TypeOK

LEMMA NextInvariant == IInv /\ [Next]_vars => IInv'
  <1>. SUFFICES ASSUME IInv, [Next]_vars PROVE IInv'
    OBVIOUS
  <1>1. ASSUME NEW p \in Procs, Recover(p) \/ RecoveryFails(p) \/ Locking(p) \/ Crash(p) PROVE IInv'
    BY <1>1, ClassifyStep, SyncConfigStep, SettleStep, ConfirmStep, ForgetStep, RecoveryFailsStep,
       AcquireLockStep, LockTimeoutStep, CrashStep DEF Recover, Locking
  <1>2. ASSUME NEW l \in Logins, Configure(l) PROVE IInv'
    BY <1>2, FreezeStep, AuthorizeStep, CompareStep, CommitJournalStep, CommitCacheStep, SaveConfigStep
       DEF Configure
  <1>3. ASSUME NEW r \in Refreshers, Refresh(r) \/ Quit(r) PROVE IInv'
    BY <1>3, ConstructStep, BuiltStep, CheckSourceStep, RotateTokenStep, PersistTokenStep, VerifySourceStep,
       StoreCredentialStep, QuitStep DEF Refresh
  <1>4. CASE PowerLoss
    BY <1>4, PowerLossStep
  <1>5. CASE EditConfig \/ Relink
    BY <1>5, EditStep
  <1>6. CASE UNCHANGED vars
    <2>1. UNCHANGED <<resolved, config, configD, cache, cacheD, journal, journalD>>
      BY <1>6 DEF vars, files
    <2>2. UNCHANGED <<lock, pc, frozen, gen, fresh, result, verdict, resume, issued, saved, kept, faults, edits>>
      BY <1>6 DEF vars, locals
    <2>3. TypeOK'
      BY <2>1, <2>2 DEF IInv, TypeOK, FilesOK, ControlOK, LocalsOK, CountersOK
    <2>4. LockDiscipline' /\ JournalHeld' /\ BuiltFor' /\ OwnJournal' /\ NoJournalYet'
      BY <2>1, <2>2 DEF IInv, LockDiscipline, JournalHeld, BuiltFor, OwnJournal, NoJournalYet
    <2>5. SavedCovers' /\ FreshJournal' /\ SavedLast' /\ NewIsSaved' /\ OneOwner' /\ Recoverable'
      BY <2>1, <2>2 DEF IInv, SavedCovers, FreshJournal, SavedLast, NewIsSaved, OneOwner, Recoverable,
         Pending, Caches, Owner
    <2>. QED
      BY <2>3, <2>4, <2>5 DEF IInv
  <1>. QED
    BY <1>1, <1>2, <1>3, <1>4, <1>5, <1>6 DEF Next

THEOREM Invariant == Spec => []IInv
  BY InitInvariant, NextInvariant, PTL DEF Spec

\* Every variable keeps its type, whatever fails.
THEOREM TypeCorrect == Spec => []TypeOK
  <1>1. IInv => TypeOK
    BY DEF IInv
  <1>. QED
    BY <1>1, Invariant, PTL

\* One command at a time works on the pair of files (acquireCredentialFileLock).
THEOREM LockExcludes == Spec => []LockDiscipline
  <1>1. IInv => LockDiscipline
    BY DEF IInv
  <1>. QED
    BY <1>1, Invariant, PTL

\* Whatever crashes, power losses, failed calls and outside edits happen, the
\* cache and the journal left behind are a pair that
\* recoverNativeOAuthTransaction can settle.
THEOREM RecoveryNeverRefuses == Spec => []Recoverable
  <1>1. IInv => Recoverable
    BY DEF IInv
  <1>. QED
    BY <1>1, Invariant, PTL
-----------------------------------------------------------------------------
(***************************************************************************)
(* What the two files and the journal say of each other, in every state a  *)
(* power loss can leave.                                                   *)
(***************************************************************************)
RefreshSteps == {"check", "rotate", "persist", "verify", "exchange"}
SettleSteps == {"settle", "confirm", "forget"}

\* No token was kept of a login whose journal is pending: its first entry,
\* which a recovery may write again, is not older than a kept one.
TokensKept ==
  /\ NewestTokenKept
  /\ \A j \in Pending : kept[j.login] = 0
  /\ \A g \in Gens : kept[g] > 0 => g \in saved

OwnersSaved ==
  /\ \A j \in Pending : Owner(j.previous) \in saved \cup {NoGen}
  /\ AbandonedTokensWithdrawn

\* The owner o of a cache entry and the configuration cfg belong together when
\* the paths resolve as res says.
Matches(o, cfg, res) ==
  /\ (o \in Gens /\ \E u \in Targets : cfg[u] = o) \/ (\A t \in Targets : cfg[t] \notin Gens)
  /\ o \in Logins => cfg[res[PathOf[o]]] = o

\* The configuration cfg as it was before the login of journal j.
Undone(cfg, j) == [cfg EXCEPT ![j.target] = j.old]

PathNamed == \A j \in Pending : j.path = PathOf[j.login]

\* A pending journal tells the only file that may differ, with and without a
\* power loss, and how the entry it replaces went with the configuration.
JournalTells == edits = 0 => \A j \in Pending :
  /\ j.target = resolved[j.path]
  /\ {config[j.target], configD[j.target]} \subseteq {j.login, j.old}
  /\ Matches(Owner(j.previous), Undone(config, j), resolved)
OnlyDifference == edits = 0 => \A t \in Targets : config[t] # configD[t] =>
  /\ journal # NoJournal /\ journalD = journal
  /\ journal.target = t /\ config[t] = journal.login
SettledMatch == edits = 0 =>
  (NoJournal \in {journal, journalD} => \A c \in Caches : Matches(Owner(c), config, resolved))

\* What a command knows at the step it is at.
RefresherKnows(r) ==
  /\ pc[r] \in RefreshSteps => journal = NoJournal
  /\ pc[r] # "idle" => gen[r] \in saved
  /\ pc[r] = "rotate" => Owner(cache) = gen[r]
  /\ pc[r] = "persist" => fresh[r] >= kept[gen[r]]
LoginKnows(l) == edits = 0 =>
  /\ pc[l] # "start" => frozen[l].target = resolved[PathOf[l]]
  /\ pc[l] \in {"journal", "cache", "save"} => config[frozen[l].target] = frozen[l].cfg
RecoveryKnows(p) ==
  /\ pc[p] = "syncConfig" => verdict = "new"
  /\ pc[p] = "forget" => /\ Owner(cache) \in saved \cup {NoGen}
                         /\ verdict = "new" => Owner(cache) = journal.login
SettlerKnows(p) == edits = 0 =>
  /\ pc[p] \in SettleSteps =>
       /\ config = configD
       /\ \/ verdict = "new" /\ config[journal.target] = journal.login
          \/ verdict = "old" /\ config[journal.target] = journal.old
  /\ pc[p] = "forget" => Matches(Owner(cache), config, resolved)

\* The final recovery of a login that was saved works on its own journal.
Finishing == resume = "finish" =>
  /\ lock \in Logins /\ pc[lock] \in RecoverySteps
  /\ journal # NoJournal /\ journalD = journal /\ journal.login = lock
  /\ edits = 0 => verdict \in {"none", "new"} /\ config[journal.target] = lock

FilesInv == /\ TokensKept /\ OwnersSaved /\ PathNamed
            /\ JournalTells /\ OnlyDifference /\ SettledMatch
StepsInv == /\ \A r \in Refreshers : RefresherKnows(r)
            /\ \A l \in Logins : LoginKnows(l)
            /\ \A p \in Procs : RecoveryKnows(p) /\ SettlerKnows(p)
JInv == FilesInv /\ StepsInv /\ Finishing
-----------------------------------------------------------------------------
(***************************************************************************)
(* How a step carries this over.                                           *)
(***************************************************************************)
\* p moves alone; a holder other than p finds everything as it was.
MovesAlone(p) ==
  /\ pc' = [pc EXCEPT ![p] = pc'[p]]
  /\ lock \in {p, Free} \/ UNCHANGED <<files, lock, verdict, resume, saved, kept>>
  /\ \A q \in Procs : q # p => frozen'[q] = frozen[q] /\ fresh'[q] = fresh[q]
  /\ \A r \in Refreshers : r # p => gen'[r] = gen[r]
  /\ saved \subseteq saved' /\ UNCHANGED <<resolved, edits>>

PKnows(p) == /\ p \in Refreshers => RefresherKnows(p)
             /\ p \in Logins => LoginKnows(p)
             /\ RecoveryKnows(p) /\ SettlerKnows(p)

\* The others know what they knew.
LEMMA OthersKnow ==
  ASSUME IInv, StepsInv, NEW p \in Procs, MovesAlone(p), PKnows(p)'
  PROVE  StepsInv'
  <1>. USE NamesAssumption
  <1>1. \A q \in Procs : q # p => pc'[q] = pc[q]
    BY DEF MovesAlone, IInv, TypeOK, ControlOK
  <1>2. ASSUME NEW q \in Procs, q # p, pc[q] \in Locked
        PROVE  UNCHANGED <<files, lock, verdict, resume, saved, kept>>
    BY <1>2 DEF MovesAlone, IInv, LockDiscipline
  <1>3. ASSUME NEW r \in Refreshers, r # p PROVE RefresherKnows(r)'
    <2>1. pc'[r] = pc[r] /\ gen'[r] = gen[r] /\ fresh'[r] = fresh[r] /\ RefresherKnows(r) /\ r \in Procs
      BY <1>1, <1>3 DEF MovesAlone, StepsInv, Procs
    <2>2. CASE pc[r] \in RefreshSteps
      BY <1>2, <1>3, <2>1, <2>2 DEF RefresherKnows, RefreshSteps, Locked, files
    <2>3. CASE pc[r] \notin RefreshSteps
      BY <2>1, <2>3 DEF RefresherKnows, RefreshSteps, MovesAlone
    <2>. QED
      BY <2>2, <2>3
  <1>4. ASSUME NEW l \in Logins, l # p PROVE LoginKnows(l)'
    <2>1. /\ pc'[l] = pc[l] /\ frozen'[l] = frozen[l] /\ LoginKnows(l) /\ l \in Procs
          /\ UNCHANGED <<resolved, edits>>
      BY <1>1, <1>4 DEF MovesAlone, StepsInv, Procs
    <2>2. CASE pc[l] \in Locked
      BY <1>2, <1>4, <2>1, <2>2 DEF LoginKnows, files
    <2>3. CASE pc[l] \notin Locked
      BY <2>1, <2>3 DEF LoginKnows, Locked
    <2>. QED
      BY <2>2, <2>3
  <1>5. ASSUME NEW q \in Procs, q # p PROVE RecoveryKnows(q)' /\ SettlerKnows(q)'
    <2>1. pc'[q] = pc[q] /\ RecoveryKnows(q) /\ SettlerKnows(q) /\ UNCHANGED <<resolved, edits>>
      BY <1>1, <1>5 DEF MovesAlone, StepsInv
    <2>2. CASE pc[q] \in Locked
      <3>1. UNCHANGED <<config, configD, cache, journal, verdict, saved>>
        BY <1>2, <1>5, <2>2 DEF files
      <3>. QED
        BY <2>1, <3>1 DEF RecoveryKnows, SettlerKnows
    <2>3. CASE pc[q] \notin Locked
      BY <2>1, <2>3 DEF RecoveryKnows, SettlerKnows, SettleSteps, Locked
    <2>. QED
      BY <2>2, <2>3
  <1>. QED
    BY <1>3, <1>4, <1>5 DEF StepsInv, PKnows, Procs

\* A step after which fewer caches and journals are left to a power loss.
LEMMA FewerFiles ==
  ASSUME FilesInv, UNCHANGED <<resolved, config, configD, saved, kept, edits>>,
         Caches' \subseteq Caches, Pending' \subseteq Pending,
         NoJournal \in {journal', journalD'} => NoJournal \in {journal, journalD},
         (edits = 0 /\ config # configD) => journal' = journal /\ journalD' \in {journal, journalD}
  PROVE  FilesInv'
  <1>. USE DEF FilesInv
  <1>1. TokensKept'
    BY DEF TokensKept, NewestTokenKept
  <1>2. OwnersSaved'
    BY DEF OwnersSaved, AbandonedTokensWithdrawn
  <1>3. PathNamed' /\ JournalTells'
    BY DEF PathNamed, JournalTells
  <1>4. OnlyDifference'
    BY DEF OnlyDifference
  <1>5. SettledMatch'
    BY DEF SettledMatch
  <1>. QED
    BY <1>1, <1>2, <1>3, <1>4, <1>5

LEMMA SameFiles ==
  ASSUME FilesInv, UNCHANGED <<files, saved, kept, edits>>
  PROVE  FilesInv'
  <1>1. UNCHANGED <<resolved, config, configD, cache, cacheD, journal, journalD>>
    BY DEF files
  <1>2. Caches' = Caches /\ Pending' = Pending
    BY <1>1 DEF Caches, Pending
  <1>. QED
    BY <1>1, <1>2, FewerFiles

\* A step that leaves the files alone and ends outside the lock.
LEMMA StepsOut ==
  ASSUME IInv, JInv, NEW p \in Procs, MovesAlone(p), UNCHANGED <<files, saved, kept>>,
         pc'[p] \notin Locked,
         p \in Refreshers /\ pc'[p] # "idle" => gen'[p] \in saved,
         p \in Logins /\ edits = 0 /\ pc'[p] # "start" => frozen'[p].target = resolved[PathOf[p]],
         resume' # "finish" \/ (lock # p /\ UNCHANGED <<lock, verdict, resume>>)
  PROVE  JInv'
  <1>1. UNCHANGED <<resolved, config, configD, cache, cacheD, journal, journalD, edits>>
    BY DEF MovesAlone, files
  <1>2. FilesInv'
    BY <1>1, SameFiles DEF JInv
  <1>3. PKnows(p)'
    <2>1. p \in Refreshers => RefresherKnows(p)'
      BY <1>1 DEF RefresherKnows, RefreshSteps, Locked
    <2>2. p \in Logins => LoginKnows(p)'
      BY <1>1 DEF LoginKnows, Locked
    <2>3. RecoveryKnows(p)' /\ SettlerKnows(p)'
      BY DEF RecoveryKnows, SettlerKnows, SettleSteps, Locked
    <2>. QED
      BY <2>1, <2>2, <2>3 DEF PKnows
  <1>4. StepsInv'
    BY <1>3, OthersKnow DEF JInv
  <1>5. Finishing'
    <2>1. CASE resume' # "finish"
      BY <2>1 DEF Finishing
    <2>2. CASE resume = "finish" /\ lock # p /\ UNCHANGED <<lock, verdict, resume>>
      <3>1. lock \in Procs /\ pc'[lock] = pc[lock]
        BY <2>2 DEF JInv, Finishing, Procs, MovesAlone, IInv, TypeOK, ControlOK
      <3>. QED
        BY <1>1, <2>2, <3>1 DEF JInv, Finishing
    <2>. QED
      BY <2>1, <2>2
  <1>. QED
    BY <1>2, <1>4, <1>5 DEF JInv

-----------------------------------------------------------------------------
(***************************************************************************)
(* The recovery.                                                           *)
(***************************************************************************)
\* A recovery that ends has failed, or leaves no journal behind.
LEMMA RecoveryOut ==
  ASSUME IInv, JInv, NEW p \in Procs, lock = p, pc[p] \in RecoverySteps, NEW err \in Errors,
         Recovered(p, err), RecoveryFrame, UNCHANGED resolved, FilesInv',
         err = "none" => journal' = NoJournal
  PROVE  JInv'
  <1>1. /\ resume' = "none" /\ verdict' = "none"
        /\ Moves(p, {"done", "idle", "login", "built", "compare", "check"})
        /\ pc'[p] = "check" => err = "none"
    BY RecoveredControl DEF IInv, TypeOK, Control
  <1>2. MovesAlone(p)
    BY <1>1 DEF MovesAlone, Moves, RecoveryFrame
  <1>3. PKnows(p)'
    <2>1. p \in Refreshers => RefresherKnows(p)'
      BY <1>1 DEF RefresherKnows, RefreshSteps, Moves, RecoveryFrame, JInv, StepsInv, RecoverySteps, JournalSteps
    <2>2. p \in Logins => LoginKnows(p)'
      BY <1>1 DEF LoginKnows, Moves, RecoveryFrame, JInv, StepsInv, RecoverySteps, JournalSteps
    <2>3. RecoveryKnows(p)' /\ SettlerKnows(p)'
      BY <1>1 DEF RecoveryKnows, SettlerKnows, SettleSteps, Moves
    <2>. QED
      BY <2>1, <2>2, <2>3 DEF PKnows
  <1>4. StepsInv'
    BY <1>2, <1>3, OthersKnow DEF JInv
  <1>5. Finishing'
    BY <1>1 DEF Finishing
  <1>. QED
    BY <1>4, <1>5 DEF JInv

\* A recovery that goes on keeps the journal it works on.
LEMMA RecoveryOn ==
  ASSUME IInv, JInv, NEW p \in Procs, lock = p, pc[p] \in RecoverySteps, NEW next \in RecoverySteps,
         Goto(p, next), RecoveryFrame, UNCHANGED <<resolved, config, journal>>,
         journalD' \in {journal, journalD}, FilesInv', RecoveryKnows(p)', SettlerKnows(p)'
  PROVE  JInv'
  <1>1. pc' = [pc EXCEPT ![p] = next] /\ pc'[p] = next /\ UNCHANGED <<lock, verdict, resume>>
    BY DEF Goto, IInv, TypeOK, ControlOK
  <1>2. MovesAlone(p)
    BY <1>1 DEF MovesAlone, RecoveryFrame
  <1>3. PKnows(p)'
    <2>1. p \in Refreshers => RefresherKnows(p)'
      BY <1>1 DEF RefresherKnows, RefreshSteps, RecoveryFrame, JInv, StepsInv, RecoverySteps, JournalSteps
    <2>2. p \in Logins => LoginKnows(p)'
      BY <1>1 DEF LoginKnows, RecoveryFrame, JInv, StepsInv, RecoverySteps, JournalSteps
    <2>. QED
      BY <2>1, <2>2 DEF PKnows
  <1>4. StepsInv'
    BY <1>2, <1>3, OthersKnow DEF JInv
  <1>5. Finishing'
    BY <1>1 DEF JInv, Finishing, RecoveryFrame
  <1>. QED
    BY <1>4, <1>5 DEF JInv

\* Without outside edits only the file of a durable journal may differ after a
\* power loss, and only to hold its login.
LEMMA SameConfigs ==
  ASSUME IInv, JInv, edits = 0,
         journal = NoJournal \/ journalD # journal \/ config[journal.target] # journal.login
  PROVE  config = configD
  <1>1. \A t \in Targets : config[t] = configD[t]
    BY DEF JInv, FilesInv, OnlyDifference
  <1>2. config \in [Targets -> ConfigValues] /\ configD \in [Targets -> ConfigValues]
    BY DEF IInv, TypeOK, FilesOK
  <1>. QED
    BY <1>1, <1>2

LEMMA ClassifyKeeps == ASSUME IInv, JInv, NEW p \in Procs, Classify(p) PROVE JInv'
  <1>1. lock = p /\ pc[p] = "classify" /\ UNCHANGED <<files, faults>> /\ RecoveryFrame
    BY DEF Classify, RecoveryFrame
  <1>2. FilesInv' /\ UNCHANGED <<resolved, config, configD, cache, cacheD, journal, journalD>>
    BY <1>1, SameFiles DEF RecoveryFrame, JInv, files
  <1>3. CASE journal = NoJournal
    BY <1>1, <1>2, <1>3, RecoveryOut DEF Classify, Errors, RecoverySteps
  <1>4. CASE journal # NoJournal
    <2>1. /\ pc' = [pc EXCEPT ![p] = IF verdict' = "new" THEN "syncConfig" ELSE "settle"]
          /\ verdict' = IF resolved[journal.path] # journal.target THEN "moved"
                        ELSE IF config[resolved[journal.path]] = journal.login THEN "new"
                        ELSE IF config[resolved[journal.path]] = journal.old THEN "old" ELSE "other"
          /\ UNCHANGED <<lock, result, resume>>
      BY <1>4 DEF Classify, ConfigAt
    <2>2. pc'[p] = IF verdict' = "new" THEN "syncConfig" ELSE "settle"
      BY <2>1 DEF IInv, TypeOK, ControlOK
    <2>3. MovesAlone(p)
      BY <1>1, <1>2, <2>1, <2>2 DEF MovesAlone, RecoveryFrame
    <2>4. edits = 0 => /\ journal.target = resolved[journal.path]
                       /\ config[journal.target] \in {journal.login, journal.old}
      BY <1>4 DEF JInv, FilesInv, JournalTells, Pending
    <2>5. SettlerKnows(p)'
      <3>1. CASE verdict' = "new"
        BY <2>2, <3>1 DEF SettlerKnows, SettleSteps
      <3>2. CASE verdict' # "new"
        <4>1. edits = 0 => verdict' = "old" /\ config[journal.target] = journal.old /\ config = configD
          BY <2>1, <2>4, <3>2, SameConfigs
        <4>. QED
          BY <1>1, <1>2, <2>2, <3>2, <4>1 DEF SettlerKnows, SettleSteps, RecoveryFrame
      <3>. QED
        BY <3>1, <3>2
    <2>6. PKnows(p)'
      <3>1. p \in Refreshers => RefresherKnows(p)'
        BY <1>1, <2>2 DEF RefresherKnows, RefreshSteps, RecoveryFrame, JInv, StepsInv
      <3>2. p \in Logins => LoginKnows(p)'
        BY <1>1, <1>2, <2>2 DEF LoginKnows, RecoveryFrame, JInv, StepsInv
      <3>3. RecoveryKnows(p)'
        BY <2>2 DEF RecoveryKnows
      <3>. QED
        BY <2>5, <3>1, <3>2, <3>3 DEF PKnows
    <2>7. StepsInv'
      BY <2>3, <2>6, OthersKnow DEF JInv
    <2>8. Finishing'
      <3>1. SUFFICES ASSUME resume = "finish" PROVE Finishing'
        BY <2>1 DEF Finishing
      <3>2. /\ journalD = journal /\ journal.login = p /\ p \in Logins
            /\ edits = 0 => config[journal.target] = p
        BY <1>1, <3>1 DEF JInv, Finishing
      <3>3. edits = 0 => verdict' = "new"
        BY <2>1, <2>4, <3>2
      <3>4. pc'[p] \in RecoverySteps
        BY <2>2 DEF RecoverySteps, JournalSteps
      <3>. QED
        BY <1>1, <1>2, <1>4, <2>1, <3>2, <3>3, <3>4 DEF Finishing, RecoveryFrame
    <2>. QED
      BY <1>2, <2>7, <2>8 DEF JInv
  <1>. QED
    BY <1>3, <1>4

LEMMA RecoveryFailsKeeps == ASSUME IInv, JInv, NEW p \in Procs, RecoveryFails(p) PROVE JInv'
  <1>1. lock = p /\ pc[p] \in RecoverySteps /\ UNCHANGED files /\ RecoveryFrame
    BY DEF RecoveryFails, RecoveryFrame, RecoverySteps, JournalSteps
  <1>2. FilesInv' /\ UNCHANGED resolved
    BY <1>1, SameFiles DEF RecoveryFrame, JInv, files
  <1>3. Recovered(p, StepError("failed")) /\ StepError("failed") \in Errors \ {"none"}
    BY StepErrorType DEF RecoveryFails, Errors
  <1>. QED
    BY <1>1, <1>2, <1>3, RecoveryOut

\* What is synced is what was seen.
LEMMA SyncConfigKeeps == ASSUME IInv, JInv, NEW p \in Procs, SyncConfig(p) PROVE JInv'
  <1>1. /\ lock = p /\ pc[p] = "syncConfig" /\ pc[p] \in RecoverySteps /\ RecoveryFrame /\ journal # NoJournal
        /\ UNCHANGED <<resolved, config, cache, cacheD, journal, journalD>>
        /\ journal \in Journals
    BY DEF SyncConfig, RecoveryFrame, RecoverySteps, JournalSteps, IInv, JournalHeld, TypeOK, FilesOK
  <1>2. /\ config \in [Targets -> ConfigValues] /\ configD \in [Targets -> ConfigValues]
        /\ journal.target \in Targets
    BY <1>1 DEF IInv, TypeOK, FilesOK, Journals
  <1>3. \A t \in Targets : configD'[t] \in {config[t], configD[t]}
    BY <1>2 DEF SyncConfig
  <1>4. Caches' = Caches /\ Pending' = Pending /\ UNCHANGED <<saved, kept, edits>>
    BY <1>1 DEF Caches, Pending, RecoveryFrame
  <1>5. FilesInv'
    <2>. USE DEF JInv, FilesInv
    <2>1. TokensKept' /\ OwnersSaved' /\ PathNamed'
      BY <1>1, <1>4 DEF TokensKept, NewestTokenKept, OwnersSaved, AbandonedTokensWithdrawn, PathNamed
    <2>2. JournalTells'
      <3>1. SUFFICES ASSUME edits = 0, NEW j \in Pending
                     PROVE  {config[j.target], configD'[j.target]} \subseteq {j.login, j.old}
        BY <1>1, <1>4 DEF JournalTells
      <3>2. j.target \in Targets
        BY DEF IInv, TypeOK, FilesOK, Journals, Pending
      <3>. QED
        BY <1>3, <3>1, <3>2 DEF JournalTells
    <2>3. OnlyDifference'
      BY <1>1, <1>3, <1>4 DEF OnlyDifference
    <2>4. SettledMatch'
      BY <1>1, <1>4 DEF SettledMatch
    <2>. QED
      BY <2>1, <2>2, <2>3, <2>4
  <1>6. CASE Recovered(p, "changed") \/ Recovered(p, "uncertain")
    BY <1>1, <1>5, <1>6, RecoveryOut DEF Errors
  <1>7. CASE /\ Goto(p, "settle") /\ configD' = [configD EXCEPT ![journal.target] = config[journal.target]]
             /\ resolved[journal.path] = journal.target /\ ConfigAt(journal.path) = journal.login
    <2>1. pc'[p] = "settle" /\ verdict' = verdict /\ verdict = "new"
      BY <1>1, <1>7 DEF Goto, IInv, TypeOK, ControlOK, JInv, StepsInv, RecoveryKnows
    <2>2. edits = 0 => config = configD'
      <3>1. edits = 0 => \A t \in Targets : config[t] = configD'[t]
        BY <1>2, <1>7 DEF JInv, FilesInv, OnlyDifference
      <3>2. configD' \in [Targets -> ConfigValues]
        BY <1>2, <1>7
      <3>. QED
        BY <1>2, <3>1, <3>2
    <2>3. RecoveryKnows(p)' /\ SettlerKnows(p)'
      BY <1>1, <1>4, <1>7, <2>1, <2>2 DEF RecoveryKnows, SettlerKnows, ConfigAt
    <2>. QED
      BY <1>1, <1>5, <1>7, <2>3, RecoveryOn DEF RecoverySteps, JournalSteps
  <1>. QED
    BY <1>6, <1>7 DEF SyncConfig

\* A recovery writes an entry of the journal, with a token no older than one
\* that was kept.
LEMMA SettleByKeeps ==
  ASSUME IInv, JInv, NEW p \in Procs, lock = p, pc[p] = "settle", RecoveryFrame,
         NEW e \in Entries \cup {NoEntry}, NEW next \in {"confirm", "forget"},
         Owner(e) = Owner(journal.previous) \/ (verdict = "new" /\ Owner(e) = journal.login),
         e # NoEntry => e.token >= kept[e.gen],
         next = "forget" => verdict # "new" /\ Owner(e) = Owner(journal.previous) /\ Owner(e) = NoGen,
         SettleBy(p, e, next)
  PROVE  JInv'
  <1>1. PICK o \in Outcomes : /\ Charge(o) /\ ReplaceCache(e, o)
                              /\ IF o = "ok" THEN Goto(p, next) ELSE Recovered(p, StepError(o))
    BY DEF SettleBy
  <1>2. journal # NoJournal /\ pc[p] \in RecoverySteps /\ journal \in Pending
    BY DEF IInv, JournalHeld, JournalSteps, RecoverySteps, Pending
  <1>3. /\ UNCHANGED <<resolved, config, configD, journal, saved, kept, edits>>
        /\ cache' \in {cache, e} /\ cacheD' \in {cacheD, e} /\ journalD' \in {journal, journalD}
        /\ o = "ok" => cache' = e /\ cacheD' = e /\ journalD' = journal
    BY <1>1 DEF ReplaceCache, RecoveryFrame
  <1>4. Caches' \subseteq Caches \cup {e} /\ Pending' \subseteq Pending
    BY <1>2, <1>3 DEF Caches, Pending
  <1>5. edits = 0 => config = configD
    BY DEF JInv, StepsInv, SettlerKnows, SettleSteps
  <1>6. journalD # journal => /\ Owner(e) = Owner(journal.previous)
                              /\ Owner(cache) = Owner(e) /\ Owner(cacheD) = Owner(e)
    BY <1>2 DEF IInv, FreshJournal, NewIsSaved
  <1>7. NoJournal \in {journal', journalD'} =>
          NoJournal \in {journal, journalD} /\ \A c \in Caches' : Owner(c) = Owner(cache)
    BY <1>2, <1>3, <1>4, <1>6 DEF Caches
  <1>8. FilesInv'
    <2>. USE DEF JInv, FilesInv
    <2>1. TokensKept'
      BY <1>3, <1>4 DEF TokensKept, NewestTokenKept
    <2>2. OwnersSaved'
      BY <1>3, <1>4, <1>7 DEF OwnersSaved, AbandonedTokensWithdrawn, Caches
    <2>3. PathNamed' /\ JournalTells'
      BY <1>3, <1>4 DEF PathNamed, JournalTells
    <2>4. OnlyDifference'
      BY <1>3, <1>5 DEF OnlyDifference
    <2>5. SettledMatch'
      BY <1>3, <1>7 DEF SettledMatch, Caches
    <2>. QED
      BY <2>1, <2>2, <2>3, <2>4, <2>5
  <1>9. CASE o = "ok"
    <2>1. pc'[p] = next /\ verdict' = verdict
      BY <1>1, <1>9 DEF Goto, IInv, TypeOK, ControlOK
    <2>2. SettlerKnows(p)
      BY DEF JInv, StepsInv
    <2>3. RecoveryKnows(p)'
      BY <1>3, <1>9, <2>1 DEF RecoveryKnows
    <2>4. ASSUME edits = 0, next = "forget" PROVE Matches(Owner(e), config, resolved)
      <3>1. Matches(Owner(journal.previous), Undone(config, journal), resolved)
        BY <1>2, <2>4 DEF JInv, FilesInv, JournalTells
      <3>2. config[journal.target] = journal.old
        BY <2>2, <2>4 DEF SettlerKnows, SettleSteps
      <3>3. Undone(config, journal) = config
        BY <3>2 DEF Undone, IInv, TypeOK, FilesOK
      <3>. QED
        BY <2>4, <3>1, <3>3
    <2>5. SettlerKnows(p)'
      BY <1>3, <1>9, <2>1, <2>2, <2>4 DEF SettlerKnows, SettleSteps
    <2>. QED
      BY <1>1, <1>2, <1>3, <1>8, <1>9, <2>3, <2>5, RecoveryOn DEF RecoverySteps, JournalSteps
  <1>10. CASE o # "ok"
    <2>1. StepError(o) \in Errors \ {"none"}
      BY <1>10, StepErrorType DEF Errors, Outcomes
    <2>. QED
      BY <1>1, <1>2, <1>3, <1>8, <1>10, <2>1, RecoveryOut
  <1>. QED
    BY <1>9, <1>10

LEMMA KeepOrRefuseKeeps ==
  ASSUME IInv, JInv, NEW p \in Procs, lock = p, pc[p] = "settle", RecoveryFrame, Keep(p) \/ Refuse(p)
  PROVE  JInv'
  <1>1. UNCHANGED files /\ pc[p] \in RecoverySteps
    BY DEF Keep, Refuse, RecoverySteps, JournalSteps
  <1>2. FilesInv' /\ UNCHANGED <<resolved, config, configD, cache, cacheD, journal, journalD>>
    BY <1>1, SameFiles DEF RecoveryFrame, JInv, files
  <1>3. CASE Keep(p)
    <2>1. Goto(p, "confirm") /\ pc'[p] = "confirm" /\ verdict' = verdict
      BY <1>3 DEF Keep, Goto, IInv, TypeOK, ControlOK
    <2>2. RecoveryKnows(p)' /\ SettlerKnows(p)'
      BY <1>2, <2>1 DEF RecoveryKnows, SettlerKnows, SettleSteps, JInv, StepsInv, RecoveryFrame
    <2>. QED
      BY <1>1, <1>2, <2>1, <2>2, RecoveryOn DEF RecoverySteps, JournalSteps
  <1>4. CASE Refuse(p)
    BY <1>1, <1>2, <1>4, RecoveryOut DEF Refuse, Errors
  <1>. QED
    BY <1>3, <1>4

LEMMA SettleKeeps == ASSUME IInv, JInv, NEW p \in Procs, Settle(p) PROVE JInv'
  <1>1. /\ lock = p /\ pc[p] = "settle" /\ RecoveryFrame
        /\ journal \in Journals /\ journal \in Pending
    BY DEF Settle, RecoveryFrame, IInv, JournalHeld, JournalSteps, TypeOK, FilesOK, Pending
  <1>2. /\ journal.login \in Gens /\ journal.previous \in Entries \cup {NoEntry}
        /\ Owner(journal.previous) = NoGen <=> journal.previous = NoEntry
    BY <1>1, NamesAssumption DEF Journals, Gens, Entries, Owner
  <1>3. /\ kept[journal.login] = 0
        /\ journal.previous # NoEntry => journal.previous.token >= kept[journal.previous.gen]
    BY <1>1 DEF JInv, FilesInv, TokensKept, NewestTokenKept
  <1>4. CASE verdict = "new" /\ InstallNext(p)
    <2>1. CASE Keep(p) \/ Refuse(p)
      BY <1>1, <2>1, KeepOrRefuseKeeps
    <2>2. CASE SettleBy(p, [gen |-> journal.login, token |-> 0], "confirm")
      <3> DEFINE e == [gen |-> journal.login, token |-> 0]
      <3>1. e \in Entries /\ e.gen = journal.login /\ e.token >= kept[e.gen]
        BY <1>2, <1>3 DEF Entries
      <3>2. Owner(e) = journal.login
        BY <3>1, NamesAssumption DEF Owner
      <3>3. SettleBy(p, e, "confirm")
        BY <2>2
      <3>. HIDE DEF e
      <3>. QED
        BY <1>1, <1>4, <3>1, <3>2, <3>3, SettleByKeeps
    <2>. QED
      BY <1>4, <2>1, <2>2 DEF InstallNext
  <1>5. CASE verdict # "new" /\ RestorePrevious(p)
    <2>1. CASE Keep(p) \/ Refuse(p)
      BY <1>1, <2>1, KeepOrRefuseKeeps
    <2>2. CASE SettleBy(p, journal.previous, "confirm")
      BY <1>1, <1>2, <1>3, <2>2, SettleByKeeps
    <2>3. CASE Owner(journal.previous) = NoGen /\ SettleBy(p, NoEntry, "forget")
      <3>1. Owner(NoEntry) = NoGen
        BY DEF Owner
      <3>. QED
        BY <1>1, <1>5, <2>3, <3>1, SettleByKeeps
    <2>. QED
      BY <1>5, <2>1, <2>2, <2>3 DEF RestorePrevious
  <1>. QED
    BY <1>4, <1>5 DEF Settle

\* The entry that is confirmed is the one the verdict asks for.
LEMMA ConfirmKeeps == ASSUME IInv, JInv, NEW p \in Procs, Confirm(p) PROVE JInv'
  <1>1. /\ lock = p /\ pc[p] = "confirm" /\ pc[p] \in RecoverySteps /\ RecoveryFrame /\ journal # NoJournal
        /\ UNCHANGED <<resolved, config, configD, cache, journal, saved, kept, edits>>
        /\ cacheD' \in {cache, cacheD} /\ journalD' \in {journal, journalD}
        /\ journal \in Journals
    BY DEF Confirm, RecoveryFrame, RecoverySteps, JournalSteps, IInv, JournalHeld, TypeOK, FilesOK
  <1>2. FilesInv'
    <2>1. Caches' \subseteq Caches /\ Pending' \subseteq Pending
      BY <1>1 DEF Caches, Pending
    <2>2. NoJournal \in {journal', journalD'} => NoJournal \in {journal, journalD}
      BY <1>1
    <2>. QED
      BY <1>1, <2>1, <2>2, FewerFiles DEF JInv
  <1>3. CASE Recovered(p, "changed") \/ Recovered(p, "uncertain")
    BY <1>1, <1>2, <1>3, RecoveryOut DEF Errors
  <1>4. CASE /\ Goto(p, "forget")
             /\ Owner(cache) = IF verdict = "new" THEN journal.login ELSE Owner(journal.previous)
    <2>1. pc'[p] = "forget" /\ verdict' = verdict
      BY <1>4 DEF Goto, IInv, TypeOK, ControlOK
    <2>2. SettlerKnows(p) /\ journal \in Pending
      BY <1>1 DEF JInv, StepsInv, Pending
    <2>3. RecoveryKnows(p)'
      <3>1. verdict = "new" => journal.login \in saved
        BY <1>1 DEF IInv, NewIsSaved
      <3>2. Owner(journal.previous) \in saved \cup {NoGen}
        BY <2>2 DEF JInv, FilesInv, OwnersSaved
      <3>. QED
        BY <1>1, <1>4, <2>1, <3>1, <3>2 DEF RecoveryKnows
    <2>4. ASSUME edits = 0 PROVE Matches(Owner(cache), config, resolved)
      <3>1. /\ journal.path = PathOf[journal.login] /\ journal.target = resolved[journal.path]
            /\ Matches(Owner(journal.previous), Undone(config, journal), resolved)
            /\ journal.login \in Logins /\ journal.target \in Targets
        BY <1>1, <2>2, <2>4 DEF JInv, FilesInv, PathNamed, JournalTells, Journals
      <3>2. CASE verdict = "new"
        <4>1. config[journal.target] = journal.login
          BY <1>1, <2>2, <2>4, <3>2 DEF SettlerKnows, SettleSteps
        <4>. QED
          BY <1>4, <3>1, <3>2, <4>1 DEF Matches, Gens
      <3>3. CASE verdict # "new"
        <4>1. config[journal.target] = journal.old
          BY <1>1, <2>2, <2>4, <3>3 DEF SettlerKnows, SettleSteps
        <4>2. Undone(config, journal) = config
          BY <4>1 DEF Undone, IInv, TypeOK, FilesOK
        <4>. QED
          BY <1>4, <3>1, <3>3, <4>2
      <3>. QED
        BY <3>2, <3>3
    <2>5. SettlerKnows(p)'
      BY <1>1, <2>1, <2>2, <2>4 DEF SettlerKnows, SettleSteps
    <2>. QED
      BY <1>1, <1>2, <1>4, <2>3, <2>5, RecoveryOn DEF RecoverySteps, JournalSteps
  <1>. QED
    BY <1>3, <1>4 DEF Confirm

\* The journal goes when cache and configuration match without it.
LEMMA ForgetKeeps == ASSUME IInv, JInv, NEW p \in Procs, Forget(p) PROVE JInv'
  <1>1. /\ lock = p /\ pc[p] = "forget" /\ pc[p] \in RecoverySteps /\ RecoveryFrame
        /\ Owner(cache) = Owner(cacheD)
    BY DEF Forget, RecoveryFrame, RecoverySteps, JournalSteps, IInv, OneOwner
  <1>2. PICK o \in Outcomes : /\ Charge(o) /\ ReplaceJournal(NoJournal, o)
                              /\ Recovered(p, StepError(IF o = "ok" THEN "none" ELSE o))
    BY DEF Forget
  <1>3. /\ UNCHANGED <<resolved, config, configD, cache, saved, kept, edits>>
        /\ cacheD' \in {cache, cacheD} /\ journalD' \in {NoJournal, journalD} /\ journal' \in {NoJournal, journal}
        /\ o = "ok" => journal' = NoJournal
    BY <1>1, <1>2 DEF ReplaceJournal, RecoveryFrame
  <1>4. /\ Caches' \subseteq Caches /\ Pending' \subseteq Pending
        /\ \A c \in Caches : Owner(c) = Owner(cache)
    BY <1>1, <1>3 DEF Caches, Pending
  <1>5. /\ Owner(cache) \in saved \cup {NoGen}
        /\ edits = 0 => config = configD /\ Matches(Owner(cache), config, resolved)
    BY <1>1 DEF JInv, StepsInv, RecoveryKnows, SettlerKnows, SettleSteps
  <1>6. FilesInv'
    <2>. USE DEF JInv, FilesInv
    <2>1. TokensKept'
      BY <1>3, <1>4 DEF TokensKept, NewestTokenKept
    <2>2. OwnersSaved'
      BY <1>3, <1>4, <1>5 DEF OwnersSaved, AbandonedTokensWithdrawn
    <2>3. PathNamed' /\ JournalTells'
      BY <1>3, <1>4 DEF PathNamed, JournalTells
    <2>4. OnlyDifference'
      BY <1>3, <1>5 DEF OnlyDifference
    <2>5. SettledMatch'
      BY <1>3, <1>4, <1>5 DEF SettledMatch
    <2>. QED
      BY <2>1, <2>2, <2>3, <2>4, <2>5
  <1>7. /\ StepError(IF o = "ok" THEN "none" ELSE o) \in Errors
        /\ o # "ok" => StepError(IF o = "ok" THEN "none" ELSE o) # "none"
    BY StepErrorType DEF Errors, Outcomes
  <1>. QED
    BY <1>1, <1>2, <1>3, <1>6, <1>7, RecoveryOut

-----------------------------------------------------------------------------
(***************************************************************************)
(* The other steps that change no file.                                    *)
(***************************************************************************)
\* A holder that goes on under the lock, outside the recovery.
LEMMA StepsOn ==
  ASSUME IInv, JInv, NEW p \in Procs, lock = p, pc[p] \notin RecoverySteps,
         NEW label \in Labels, label \notin RecoverySteps, Goto(p, label),
         UNCHANGED <<files, frozen, gen, saved, kept, edits>>,
         \A q \in Procs : q # p => fresh'[q] = fresh[q],
         p \in Refreshers => RefresherKnows(p)', p \in Logins => LoginKnows(p)'
  PROVE  JInv'
  <1>1. pc' = [pc EXCEPT ![p] = label] /\ pc'[p] = label /\ UNCHANGED <<lock, verdict, resume>>
    BY DEF Goto, IInv, TypeOK, ControlOK
  <1>2. FilesInv' /\ UNCHANGED resolved
    BY SameFiles DEF JInv, files
  <1>3. MovesAlone(p)
    BY <1>1, <1>2 DEF MovesAlone
  <1>4. PKnows(p)'
    BY <1>1 DEF PKnows, RecoveryKnows, SettlerKnows, SettleSteps, RecoverySteps, JournalSteps
  <1>5. StepsInv'
    BY <1>3, <1>4, OthersKnow DEF JInv
  <1>6. resume # "finish"
    BY DEF JInv, Finishing
  <1>. QED
    BY <1>1, <1>2, <1>5, <1>6 DEF JInv, Finishing

\* A holder that leaves the lock, or a command outside it, keeps everything.
LEMMA ReleaseKeeps ==
  ASSUME IInv, JInv, NEW p \in Procs, lock = p, NEW next, next \notin Locked, NEW res, Release(p, next, res),
         pc[p] \notin {"start", "idle"},
         UNCHANGED <<files, frozen, gen, saved, kept, edits>>, \A q \in Procs : q # p => fresh'[q] = fresh[q]
  PROVE  JInv'
  <1>1. pc' = [pc EXCEPT ![p] = next] /\ pc'[p] = next /\ resume' = "none" /\ UNCHANGED resolved
    BY DEF Release, IInv, TypeOK, ControlOK, files
  <1>2. MovesAlone(p)
    BY <1>1 DEF MovesAlone
  <1>3. /\ p \in Refreshers => gen'[p] \in saved
        /\ p \in Logins /\ edits = 0 => frozen'[p].target = resolved[PathOf[p]]
    BY DEF JInv, StepsInv, RefresherKnows, LoginKnows
  <1>. QED
    BY <1>1, <1>2, <1>3, StepsOut

\* A command without the lock moves to another step without it.
LEMMA WaiterKeeps ==
  ASSUME IInv, JInv, NEW p \in Procs, lock # p, NEW next, next \notin Locked,
         pc' = [pc EXCEPT ![p] = next], pc[p] \notin {"start", "idle"},
         UNCHANGED <<files, lock, verdict, resume, frozen, gen, saved, kept, edits>>,
         \A q \in Procs : q # p => fresh'[q] = fresh[q]
  PROVE  JInv'
  <1>1. pc' = [pc EXCEPT ![p] = pc'[p]] /\ pc'[p] = next /\ UNCHANGED resolved
    BY DEF IInv, TypeOK, ControlOK, files
  <1>2. MovesAlone(p)
    BY <1>1 DEF MovesAlone
  <1>3. /\ p \in Refreshers => gen'[p] \in saved
        /\ p \in Logins /\ edits = 0 => frozen'[p].target = resolved[PathOf[p]]
    BY DEF JInv, StepsInv, RefresherKnows, LoginKnows
  <1>. QED
    BY <1>1, <1>2, <1>3, StepsOut

LEMMA AcquireLockKeeps == ASSUME IInv, JInv, NEW p \in Procs, AcquireLock(p) PROVE JInv'
  <1>1. /\ UNCHANGED <<files, gen, fresh, issued, saved, kept, faults, edits>> /\ lock = Free /\ lock' = p
        /\ pc[p] \in {"lock1", "lock2", "ready"}
        /\ frozen' = frozen \/ frozen' = [frozen EXCEPT ![p] = Read(p)]
        /\ pc' = [pc EXCEPT ![p] = "classify"]
        /\ resume' \in {"check", "compare", "login", "built"}
    BY DEF AcquireLock, Enter, StartRecovery
  <1>2. pc'[p] = "classify" /\ FilesInv' /\ UNCHANGED <<resolved, config>>
    BY <1>1, SameFiles DEF IInv, TypeOK, ControlOK, JInv, files
  <1>3. MovesAlone(p)
    BY <1>1, <1>2 DEF MovesAlone, IInv, TypeOK, LocalsOK
  <1>4. PKnows(p)'
    <2>1. p \in Refreshers => RefresherKnows(p)'
      BY <1>1, <1>2 DEF RefresherKnows, RefreshSteps, JInv, StepsInv
    <2>2. p \in Logins => LoginKnows(p)'
      <3>1. frozen'[p] \in {frozen[p], Read(p)}
        BY <1>1 DEF IInv, TypeOK, LocalsOK
      <3>. QED
        BY <1>1, <1>2, <3>1 DEF LoginKnows, Read, JInv, StepsInv
    <2>3. RecoveryKnows(p)' /\ SettlerKnows(p)'
      BY <1>2 DEF RecoveryKnows, SettlerKnows, SettleSteps
    <2>. QED
      BY <2>1, <2>2, <2>3 DEF PKnows
  <1>5. StepsInv'
    BY <1>3, <1>4, OthersKnow DEF JInv
  <1>6. Finishing'
    BY <1>1 DEF Finishing
  <1>. QED
    BY <1>2, <1>5, <1>6 DEF JInv

LEMMA LockTimeoutKeeps == ASSUME IInv, JInv, NEW p \in Procs, LockTimeout(p) PROVE JInv'
  <1>1. /\ UNCHANGED <<files, lock, frozen, gen, fresh, verdict, resume, issued, saved, kept, faults, edits>>
        /\ pc[p] \in {"lock1", "lock2", "ready"} /\ pc' = [pc EXCEPT ![p] = Idle(p)]
    BY DEF LockTimeout
  <1>2. lock # p /\ Idle(p) \notin Locked
    BY <1>1 DEF Idle, Locked, IInv, LockDiscipline
  <1>. QED
    BY <1>1, <1>2, WaiterKeeps

LEMMA FreezeKeeps == ASSUME IInv, JInv, NEW l \in Logins, Freeze(l) PROVE JInv'
  <1>1. /\ pc[l] = "start" /\ Goto(l, "lock1") /\ lock # l /\ l \in Procs /\ l \notin Refreshers
        /\ UNCHANGED <<files, gen, fresh, issued, saved, kept, faults, edits>>
        /\ frozen' = [frozen EXCEPT ![l] = Read(l)]
    BY NamesAssumption DEF Freeze, IInv, LockDiscipline, Locked, Procs
  <1>2. pc' = [pc EXCEPT ![l] = "lock1"] /\ pc'[l] = "lock1" /\ UNCHANGED <<lock, verdict, resume, resolved>>
    BY <1>1 DEF Goto, IInv, TypeOK, ControlOK, files
  <1>3. MovesAlone(l) /\ frozen'[l].target = resolved[PathOf[l]]
    BY <1>1, <1>2 DEF MovesAlone, IInv, TypeOK, LocalsOK, Read
  <1>. QED
    BY <1>1, <1>2, <1>3, StepsOut DEF Locked

LEMMA AuthorizeKeeps == ASSUME IInv, JInv, NEW l \in Logins, Authorize(l) PROVE JInv'
  <1>1. /\ pc[l] = "login" /\ lock # l /\ l \in Procs
        /\ UNCHANGED <<files, frozen, gen, fresh, issued, saved, kept, faults, edits>>
        /\ UNCHANGED <<lock, verdict, resume>>
        /\ pc' = [pc EXCEPT ![l] = "lock2"] \/ pc' = [pc EXCEPT ![l] = "done"]
    BY DEF Authorize, Goto, IInv, LockDiscipline, Locked, Procs
  <1>. QED
    BY <1>1, WaiterKeeps DEF Locked

LEMMA CompareKeeps == ASSUME IInv, JInv, NEW l \in Logins, Compare(l) PROVE JInv'
  <1>1. /\ pc[l] = "compare" /\ lock = l /\ l \in Procs /\ l \notin Refreshers
        /\ UNCHANGED <<files, frozen, gen, fresh, issued, saved, kept, faults, edits>>
        /\ (Read(l) = frozen[l] /\ Goto(l, "journal")) \/ Release(l, "done", "changed")
    BY NamesAssumption DEF Compare, Procs
  <1>2. CASE Read(l) = frozen[l] /\ Goto(l, "journal")
    <2>1. LoginKnows(l)'
      BY <1>1, <1>2 DEF LoginKnows, Read, ConfigAt, files
    <2>. QED
      BY <1>1, <1>2, <2>1, StepsOn DEF Labels, RecoverySteps, JournalSteps
  <1>3. CASE Release(l, "done", "changed")
    BY <1>1, <1>3, ReleaseKeeps DEF Locked
  <1>. QED
    BY <1>1, <1>2, <1>3

\* A provider is built for a login some configuration file has held.
LEMMA ConstructKeeps == ASSUME IInv, JInv, NEW r \in Refreshers, Construct(r) PROVE JInv'
  <1>1. /\ pc[r] = "idle" /\ lock # r /\ r \in Procs /\ r \notin Logins /\ Goto(r, "lock1")
        /\ UNCHANGED <<files, frozen, fresh, issued, saved, kept, faults, edits>>
        /\ ConfigAt(PathOf[r]) \in Gens /\ gen' = [gen EXCEPT ![r] = ConfigAt(PathOf[r])]
    BY NamesAssumption DEF Construct, IInv, LockDiscipline, Locked, Procs
  <1>2. pc' = [pc EXCEPT ![r] = "lock1"] /\ pc'[r] = "lock1" /\ UNCHANGED <<lock, verdict, resume, resolved>>
    BY <1>1 DEF Goto, IInv, TypeOK, ControlOK, files
  <1>3. gen'[r] \in saved
    <2>1. resolved[PathOf[r]] \in Targets
      BY <1>1, PathOfAssumption DEF IInv, TypeOK, FilesOK
    <2>2. ConfigAt(PathOf[r]) \in saved
      BY <1>1, <2>1, NamesAssumption DEF IInv, SavedCovers, ConfigAt
    <2>. QED
      BY <1>1, <2>2 DEF IInv, TypeOK, LocalsOK
  <1>4. MovesAlone(r)
    BY <1>1, <1>2 DEF MovesAlone, IInv, TypeOK, LocalsOK
  <1>. QED
    BY <1>1, <1>2, <1>3, <1>4, StepsOut DEF Locked

LEMMA BuiltKeeps == ASSUME IInv, JInv, NEW r \in Refreshers, Built(r) PROVE JInv'
  <1>1. /\ pc[r] = "built" /\ lock # r /\ r \in Procs
        /\ UNCHANGED <<files, frozen, gen, fresh, issued, saved, kept, faults, edits>>
        /\ UNCHANGED <<lock, verdict, resume>>
        /\ pc' = [pc EXCEPT ![r] = "ready"] \/ pc' = [pc EXCEPT ![r] = "idle"]
    BY DEF Built, Goto, IInv, LockDiscipline, Locked, Procs
  <1>. QED
    BY <1>1, WaiterKeeps DEF Locked

LEMMA QuitKeeps == ASSUME IInv, JInv, NEW r \in Refreshers, Quit(r) PROVE JInv'
  <1>1. /\ pc[r] = "ready" /\ lock # r /\ r \in Procs
        /\ UNCHANGED <<files, frozen, gen, fresh, issued, saved, kept, faults, edits>>
        /\ UNCHANGED <<lock, verdict, resume>> /\ pc' = [pc EXCEPT ![r] = "idle"]
    BY DEF Quit, Goto, IInv, LockDiscipline, Locked, Procs
  <1>. QED
    BY <1>1, WaiterKeeps DEF Locked

\* A refresher goes on only while the entry is of its generation.
LEMMA CheckSourceKeeps == ASSUME IInv, JInv, NEW r \in Refreshers, CheckSource(r) PROVE JInv'
  <1>1. /\ pc[r] = "check" /\ lock = r /\ r \in Procs /\ r \notin Logins /\ journal = NoJournal /\ gen[r] \in saved
        /\ UNCHANGED <<files, frozen, gen, fresh, issued, saved, kept, faults, edits>>
        /\ \/ Owner(cache) = gen[r] /\ (Goto(r, "rotate") \/ Goto(r, "exchange"))
           \/ Release(r, "ready", "none") \/ Release(r, "idle", "none")
    BY NamesAssumption DEF CheckSource, Procs, JInv, StepsInv, RefresherKnows, RefreshSteps
  <1>2. ASSUME NEW label \in {"rotate", "exchange"}, Owner(cache) = gen[r], Goto(r, label) PROVE JInv'
    <2>1. pc'[r] = label
      BY <1>1, <1>2 DEF Goto, IInv, TypeOK, ControlOK
    <2>2. RefresherKnows(r)'
      BY <1>1, <1>2, <2>1 DEF RefresherKnows, files
    <2>. QED
      BY <1>1, <1>2, <2>2, StepsOn DEF Labels, RecoverySteps, JournalSteps
  <1>3. CASE Release(r, "ready", "none") \/ Release(r, "idle", "none")
    BY <1>1, <1>3, ReleaseKeeps DEF Locked
  <1>. QED
    BY <1>1, <1>2, <1>3

\* The token a rotation yields is newer than the one that was kept.
LEMMA RotateTokenKeeps == ASSUME IInv, JInv, NEW r \in Refreshers, RotateToken(r) PROVE JInv'
  <1>1. /\ pc[r] = "rotate" /\ lock = r /\ r \in Procs /\ r \notin Logins /\ journal = NoJournal /\ gen[r] \in saved
        /\ Owner(cache) = gen[r] /\ gen[r] \in Gens
        /\ UNCHANGED <<files, frozen, gen, saved, kept, edits>>
    BY NamesAssumption DEF RotateToken, Procs, JInv, StepsInv, RefresherKnows, RefreshSteps, IInv, BuiltFor
  <1>2. \A q \in Procs : q # r => fresh'[q] = fresh[q]
    BY <1>1 DEF RotateToken, IInv, TypeOK, LocalsOK
  <1>3. CASE /\ Goto(r, "persist") /\ cache.token = issued[gen[r]]
             /\ fresh' = [fresh EXCEPT ![r] = issued[gen[r]] + 1]
    <2>1. pc'[r] = "persist" /\ fresh'[r] = cache.token + 1
      BY <1>1, <1>3 DEF Goto, IInv, TypeOK, ControlOK, LocalsOK
    <2>2. cache # NoEntry /\ cache.gen = gen[r] /\ cache \in Entries
      BY <1>1, NamesAssumption DEF Owner, IInv, TypeOK, FilesOK
    <2>3. cache.token >= kept[gen[r]] /\ cache.token \in Nat /\ kept[gen[r]] \in Nat
      BY <1>1, <2>2 DEF JInv, FilesInv, TokensKept, NewestTokenKept, Caches, Entries, IInv, TypeOK, CountersOK
    <2>4. fresh'[r] >= kept'[gen'[r]]
      BY <1>1, <2>1, <2>3
    <2>5. RefresherKnows(r)'
      BY <1>1, <2>1, <2>4 DEF RefresherKnows, files
    <2>. QED
      BY <1>1, <1>2, <1>3, <2>5, StepsOn DEF Labels, RecoverySteps, JournalSteps
  <1>4. CASE Release(r, "idle", "none")
    BY <1>1, <1>2, <1>4, ReleaseKeeps DEF Locked
  <1>. QED
    BY <1>3, <1>4 DEF RotateToken

LEMMA VerifySourceKeeps == ASSUME IInv, JInv, NEW r \in Refreshers, VerifySource(r) PROVE JInv'
  <1>1. /\ pc[r] = "verify" /\ lock = r /\ r \in Procs /\ r \notin Logins /\ journal = NoJournal /\ gen[r] \in saved
        /\ UNCHANGED <<files, frozen, gen, fresh, issued, saved, kept, faults, edits>>
        /\ Goto(r, "exchange") \/ Release(r, "idle", "none")
    BY NamesAssumption DEF VerifySource, Procs, JInv, StepsInv, RefresherKnows, RefreshSteps
  <1>2. CASE Goto(r, "exchange")
    <2>1. RefresherKnows(r)'
      BY <1>1, <1>2 DEF RefresherKnows, Goto, IInv, TypeOK, ControlOK, files
    <2>. QED
      BY <1>1, <1>2, <2>1, StepsOn DEF Labels, RecoverySteps, JournalSteps
  <1>3. CASE Release(r, "idle", "none")
    BY <1>1, <1>3, ReleaseKeeps DEF Locked
  <1>. QED
    BY <1>1, <1>2, <1>3

LEMMA CrashKeeps == ASSUME IInv, JInv, NEW p \in Procs, Crash(p) PROVE JInv'
  <1>1. /\ UNCHANGED <<files, frozen, gen, issued, saved, kept, edits>> /\ pc[p] \notin {"start", "idle"}
        /\ pc' = [pc EXCEPT ![p] = Idle(p)] /\ fresh' = [fresh EXCEPT ![p] = 0]
        /\ IF lock = p THEN lock' = Free /\ verdict' = "none" /\ resume' = "none"
                       ELSE UNCHANGED <<lock, verdict, resume>>
    BY DEF Crash
  <1>2. /\ Idle(p) \notin Locked /\ pc'[p] = Idle(p) /\ UNCHANGED resolved
        /\ \A q \in Procs : q # p => fresh'[q] = fresh[q]
    BY <1>1 DEF Idle, Locked, IInv, TypeOK, ControlOK, LocalsOK, files
  <1>3. CASE lock # p
    BY <1>1, <1>2, <1>3, WaiterKeeps
  <1>4. CASE lock = p
    <2>1. MovesAlone(p)
      BY <1>1, <1>2, <1>4 DEF MovesAlone
    <2>2. /\ p \in Refreshers => gen'[p] \in saved
          /\ p \in Logins /\ edits = 0 => frozen'[p].target = resolved[PathOf[p]]
      BY <1>1 DEF JInv, StepsInv, RefresherKnows, LoginKnows
    <2>. QED
      BY <1>1, <1>2, <1>4, <2>1, <2>2, StepsOut
  <1>. QED
    BY <1>3, <1>4

-----------------------------------------------------------------------------
(***************************************************************************)
(* The steps of a login and of a refresh that change files.                *)
(***************************************************************************)
\* A holder outside the recovery that changes files.
LEMMA HolderKeeps ==
  ASSUME IInv, JInv, NEW p \in Procs, lock = p, pc' = [pc EXCEPT ![p] = pc'[p]],
         UNCHANGED <<resolved, frozen, gen, edits>>, saved \subseteq saved',
         \A q \in Procs : q # p => fresh'[q] = fresh[q],
         FilesInv', PKnows(p)', Finishing'
  PROVE  JInv'
  <1>1. MovesAlone(p)
    BY DEF MovesAlone
  <1>2. StepsInv'
    BY <1>1, OthersKnow DEF JInv
  <1>. QED
    BY <1>2 DEF JInv

\* A login that ends, goes back to the recovery or goes on with its own journal.
LEMMA LoginGoesOn ==
  ASSUME IInv, JInv, NEW l \in Logins, lock = l, pc' = [pc EXCEPT ![l] = pc'[l]],
         pc[l] \in {"journal", "cache", "save"}, pc'[l] \in {"cache", "save", "classify", "done"},
         UNCHANGED <<resolved, frozen, gen, fresh, edits>>, saved \subseteq saved', FilesInv', Finishing',
         pc'[l] \in {"cache", "save"} => UNCHANGED config
  PROVE  JInv'
  <1>1. l \in Procs /\ l \notin Refreshers
    BY NamesAssumption DEF Procs
  <1>2. LoginKnows(l)'
    BY DEF LoginKnows, JInv, StepsInv
  <1>3. RecoveryKnows(l)' /\ SettlerKnows(l)'
    BY DEF RecoveryKnows, SettlerKnows, SettleSteps
  <1>. QED
    BY <1>1, <1>2, <1>3, HolderKeeps DEF PKnows

\* Without outside edits nothing has to be undone when the journal is written.
LEMMA CommitJournalKeeps == ASSUME IInv, JInv, NEW l \in Logins, CommitJournal(l) PROVE JInv'
  <1>1. /\ pc[l] = "journal" /\ lock = l /\ l \in Procs /\ l \in Gens /\ journal = NoJournal
        /\ UNCHANGED <<frozen, gen, fresh, issued, saved, kept, edits>>
        /\ Owner(cache) = Owner(cacheD) /\ l \notin saved
    BY DEF CommitJournal, IInv, NoJournalYet, Procs, Gens, OneOwner, SavedLast, RecoverySteps, JournalSteps
  <1> DEFINE j == [login |-> l, path |-> PathOf[l], target |-> frozen[l].target,
                   old |-> frozen[l].cfg, previous |-> cache]
  <1>2. PICK o \in Outcomes : /\ Charge(o) /\ ReplaceJournal(j, o)
                              /\ IF o = "ok" THEN Goto(l, "cache") ELSE Release(l, "done", o)
    BY DEF CommitJournal, Previous
  <1>3. /\ j.login = l /\ j.previous = cache /\ j.path = PathOf[l]
        /\ j.target = frozen[l].target /\ j.old = frozen[l].cfg
    OBVIOUS
  <1>. HIDE DEF j
  <1>4. /\ UNCHANGED <<resolved, config, configD, cache>>
        /\ cacheD' \in {cache, cacheD} /\ journal' \in {journal, j} /\ journalD' \in {journalD, j}
    BY <1>2 DEF ReplaceJournal
  <1>5. Caches' \subseteq Caches /\ Pending' \subseteq Pending \cup {j}
    BY <1>4 DEF Caches, Pending
  <1>6. edits = 0 => /\ j.target = resolved[j.path] /\ config[j.target] = j.old
                     /\ config = configD /\ Undone(config, j) = config
    <2>1. edits = 0 => j.target = resolved[j.path] /\ config[j.target] = j.old
      BY <1>1, <1>3 DEF JInv, StepsInv, LoginKnows
    <2>2. edits = 0 => config = configD
      BY <1>1, SameConfigs
    <2>. QED
      BY <2>1, <2>2 DEF Undone, IInv, TypeOK, FilesOK
  <1>7. /\ \A c \in Caches : Owner(c) \in saved \cup {NoGen}
        /\ edits = 0 => \A c \in Caches : Matches(Owner(c), config, resolved)
        /\ cache \in Caches
    BY <1>1 DEF JInv, FilesInv, OwnersSaved, AbandonedTokensWithdrawn, SettledMatch, Caches
  <1>8. kept[l] = 0
    BY <1>1 DEF JInv, FilesInv, TokensKept, IInv, TypeOK, CountersOK
  <1>9. FilesInv'
    <2>. USE DEF JInv, FilesInv
    <2>1. TokensKept'
      BY <1>1, <1>3, <1>5, <1>7, <1>8 DEF TokensKept, NewestTokenKept
    <2>2. OwnersSaved'
      BY <1>1, <1>3, <1>5, <1>7 DEF OwnersSaved, AbandonedTokensWithdrawn
    <2>3. PathNamed'
      BY <1>3, <1>5 DEF PathNamed
    <2>4. JournalTells'
      BY <1>1, <1>3, <1>4, <1>5, <1>6, <1>7 DEF JournalTells
    <2>5. OnlyDifference'
      BY <1>1, <1>4, <1>6 DEF OnlyDifference
    <2>6. SettledMatch'
      BY <1>1, <1>4, <1>5, <1>7 DEF SettledMatch
    <2>. QED
      BY <2>1, <2>2, <2>3, <2>4, <2>5, <2>6
  <1>10. /\ pc' = [pc EXCEPT ![l] = pc'[l]] /\ pc'[l] \in {"cache", "done"}
         /\ resume' \in {resume, "none"} /\ resume # "finish"
    <2>1. resume # "finish"
      BY <1>1 DEF JInv, Finishing, RecoverySteps, JournalSteps
    <2>. QED
      BY <1>1, <1>2, <2>1 DEF Goto, Release, IInv, TypeOK, ControlOK
  <1>11. Finishing'
    BY <1>10 DEF Finishing
  <1>. QED
    BY <1>1, <1>4, <1>9, <1>10, <1>11, LoginGoesOn

\* The first entry of a login is as new as any that was kept of it.
LEMMA CommitCacheKeeps == ASSUME IInv, JInv, NEW l \in Logins, CommitCache(l) PROVE JInv'
  <1>1. /\ pc[l] = "cache" /\ lock = l /\ l \in Procs
        /\ journal # NoJournal /\ journal.login = l /\ journalD = journal /\ journal \in Pending
        /\ UNCHANGED <<frozen, gen, fresh, issued, saved, kept, edits>>
    BY DEF CommitCache, IInv, OwnJournal, Procs, Pending
  <1> DEFINE e == [gen |-> l, token |-> 0]
  <1>2. e.gen = l /\ e.token = 0
    OBVIOUS
  <1>3. /\ UNCHANGED <<resolved, config, configD, journal, journalD>>
        /\ cache' \in {cache, e} /\ cacheD' \in {cacheD, e}
    BY <1>1 DEF CommitCache, ReplaceCache, files
  <1>. HIDE DEF e
  <1>4. Caches' \subseteq Caches \cup {e} /\ Pending' = Pending
    BY <1>3 DEF Caches, Pending
  <1>5. kept[l] = 0
    BY <1>1 DEF JInv, FilesInv, TokensKept
  <1>6. FilesInv'
    <2>. USE DEF JInv, FilesInv
    <2>1. TokensKept'
      BY <1>1, <1>2, <1>4, <1>5 DEF TokensKept, NewestTokenKept
    <2>2. OwnersSaved'
      BY <1>1, <1>3, <1>4 DEF OwnersSaved, AbandonedTokensWithdrawn
    <2>3. PathNamed' /\ JournalTells'
      BY <1>1, <1>3, <1>4 DEF PathNamed, JournalTells
    <2>4. OnlyDifference'
      BY <1>1, <1>3 DEF OnlyDifference
    <2>5. SettledMatch'
      BY <1>1, <1>3 DEF SettledMatch
    <2>. QED
      BY <2>1, <2>2, <2>3, <2>4, <2>5
  <1>7. /\ pc' = [pc EXCEPT ![l] = pc'[l]] /\ pc'[l] \in {"save", "classify"}
        /\ resume' \in {resume, "abort"} /\ resume # "finish"
    <2>1. resume # "finish"
      BY <1>1 DEF JInv, Finishing, RecoverySteps, JournalSteps
    <2>. QED
      BY <1>1, <2>1 DEF CommitCache, Goto, StartRecovery, IInv, TypeOK, ControlOK
  <1>8. Finishing'
    BY <1>7 DEF Finishing
  <1>. QED
    BY <1>1, <1>3, <1>6, <1>7, <1>8, LoginGoesOn

\* The only file a login changes is the one its journal names.
LEMMA SaveConfigKeeps == ASSUME IInv, JInv, NEW l \in Logins, SaveConfig(l) PROVE JInv'
  <1>1. /\ pc[l] = "save" /\ lock = l /\ l \in Procs
        /\ journal # NoJournal /\ journal.login = l /\ journalD = journal /\ Pending = {journal}
        /\ UNCHANGED <<resolved, cache, cacheD, journal, journalD, frozen, gen, fresh, issued, kept, edits>>
        /\ journal \in Journals
    BY DEF SaveConfig, IInv, OwnJournal, Procs, Pending, TypeOK, FilesOK
  <1> DEFINE t == frozen[l].target
  <1>2. /\ t \in Targets
        /\ config \in [Targets -> ConfigValues] /\ configD \in [Targets -> ConfigValues]
    BY <1>1 DEF IInv, TypeOK, LocalsOK, FilesOK
  <1>3. edits = 0 => t = journal.target
    <2>1. edits = 0 => t = resolved[PathOf[l]]
      BY <1>1 DEF JInv, StepsInv, LoginKnows
    <2>2. edits = 0 => journal.target = resolved[PathOf[l]]
      BY <1>1 DEF JInv, FilesInv, JournalTells, PathNamed
    <2>. QED
      BY <2>1, <2>2
  <1>4. /\ pc' = [pc EXCEPT ![l] = pc'[l]] /\ pc'[l] \in {"classify", "done"}
        /\ saved \subseteq saved'
    BY <1>1 DEF SaveConfig, StartRecovery, Release, IInv, TypeOK, ControlOK
  <1>5. CASE UNCHANGED <<config, configD, saved>> /\ resume' # "finish"
    <2>1. UNCHANGED <<files, saved, kept, edits>>
      BY <1>1, <1>5 DEF files
    <2>2. FilesInv' /\ Finishing'
      BY <1>5, <2>1, SameFiles DEF JInv, Finishing
    <2>. QED
      BY <1>1, <1>4, <2>2, LoginGoesOn
  <1>6. CASE /\ config' = [config EXCEPT ![t] = l] /\ configD' \in {configD, [configD EXCEPT ![t] = l]}
             /\ resume' # "finish" \/ (pc'[l] = "classify" /\ verdict' = "none" /\ lock' = l)
    <2>. HIDE DEF t
    <2>1. /\ config'[t] = l /\ \A u \in Targets : u # t => config'[u] = config[u]
          /\ configD'[t] \in {configD[t], l} /\ \A u \in Targets : u # t => configD'[u] = configD[u]
      BY <1>2, <1>6
    <2>2. edits = 0 => Undone(config', journal) = Undone(config, journal)
      BY <1>2, <1>3, <1>6 DEF Undone
    <2>3. Caches' = Caches /\ Pending' = Pending
      BY <1>1 DEF Caches, Pending
    <2>4. FilesInv'
      <3>. USE DEF JInv, FilesInv
      <3>1. TokensKept'
        BY <1>1, <1>4, <2>3 DEF TokensKept, NewestTokenKept
      <3>2. OwnersSaved'
        BY <1>1, <1>4, <2>3 DEF OwnersSaved, AbandonedTokensWithdrawn
      <3>3. PathNamed'
        BY <2>3 DEF PathNamed
      <3>4. JournalTells'
        BY <1>1, <1>3, <2>1, <2>2, <2>3 DEF JournalTells
      <3>5. OnlyDifference'
        BY <1>1, <1>3, <2>1 DEF OnlyDifference
      <3>6. SettledMatch'
        BY <1>1 DEF SettledMatch
      <3>. QED
        BY <3>1, <3>2, <3>3, <3>4, <3>5, <3>6
    <2>5. Finishing'
      BY <1>1, <1>3, <1>6, <2>1 DEF Finishing, RecoverySteps
    <2>. QED
      BY <1>1, <1>4, <2>4, <2>5, LoginGoesOn
  <1>7. CASE Read(l) # frozen[l]
    <2>1. UNCHANGED <<config, configD, saved>> /\ resume' = "abort"
      BY <1>7 DEF SaveConfig, StartRecovery
    <2>. QED
      BY <1>5, <2>1
  <1>8. ASSUME NEW o \in Outcomes,
               config' = IF o = "failed" THEN config ELSE [config EXCEPT ![t] = l],
               configD' = IF o = "ok" THEN [configD EXCEPT ![t] = l] ELSE configD,
               saved' = IF o = "failed" THEN saved ELSE saved \cup {l},
               \/ o = "ok" /\ StartRecovery(l, "finish", "none") /\ UNCHANGED lock
               \/ o = "failed" /\ StartRecovery(l, "abort", "failed") /\ UNCHANGED lock
               \/ o = "uncertain" /\ Release(l, "done", "uncertain")
        PROVE  JInv'
    <2>1. CASE o = "ok"
      <3>1. pc'[l] = "classify" /\ verdict' = "none" /\ lock' = l
        BY <1>1, <1>8, <2>1 DEF StartRecovery, IInv, TypeOK, ControlOK
      <3>. QED
        BY <1>6, <1>8, <2>1, <3>1
    <2>2. CASE o = "failed"
      <3>1. resume' = "abort"
        BY <1>8, <2>2 DEF StartRecovery
      <3>. QED
        BY <1>5, <1>8, <2>2, <3>1
    <2>3. CASE o = "uncertain"
      <3>1. resume' = "none"
        BY <1>8, <2>3 DEF Release
      <3>. QED
        BY <1>6, <1>8, <2>3, <3>1
    <2>. QED
      BY <2>1, <2>2, <2>3 DEF Outcomes
  <1>. QED
    BY <1>7, <1>8 DEF SaveConfig

\* An entry of the same login with a token no older than any that was kept.
LEMMA SameOwnerKeeps ==
  ASSUME IInv, JInv, NEW r \in Refreshers, pc[r] \in {"persist", "exchange"}, lock = r, Owner(cache) = gen[r],
         NEW e \in Entries, e.gen = gen[r], e.token >= kept[gen[r]],
         NEW o \in Outcomes, ReplaceCache(e, o),
         kept' = IF o = "ok" THEN [kept EXCEPT ![gen[r]] = e.token] ELSE kept,
         UNCHANGED <<frozen, gen, saved, edits>>, \A q \in Procs : q # r => fresh'[q] = fresh[q],
         Goto(r, "verify") \/ Release(r, "idle", "none") \/ Release(r, "ready", "none")
  PROVE  JInv'
  <1>1. /\ r \in Procs /\ r \notin Logins /\ gen[r] \in Gens /\ gen[r] \in saved /\ journal = NoJournal
        /\ Owner(e) = gen[r]
    BY NamesAssumption DEF Procs, IInv, BuiltFor, JInv, StepsInv, RefresherKnows, RefreshSteps, Owner
  <1>2. /\ UNCHANGED <<resolved, config, configD, journal>>
        /\ cache' \in {cache, e} /\ cacheD' \in {cacheD, e} /\ journalD' \in {journal, journalD}
        /\ o = "ok" => cache' = e /\ cacheD' = e /\ journalD' = NoJournal
    BY <1>1 DEF ReplaceCache
  <1>3. /\ Caches' \subseteq Caches \cup {e} /\ Pending' \subseteq Pending
        /\ o = "ok" => Caches' = {e} /\ Pending' = {}
    BY <1>1, <1>2 DEF Caches, Pending
  <1>4. edits = 0 => config = configD
    BY <1>1, SameConfigs
  <1>5. FilesInv'
    <2>. USE DEF JInv, FilesInv
    <2>1. TokensKept'
      <3>1. CASE o = "ok"
        <4>1. kept' = [kept EXCEPT ![gen[r]] = e.token] /\ kept \in [Gens -> Nat]
          BY <3>1 DEF IInv, TypeOK, CountersOK
        <4>2. kept'[gen[r]] = e.token /\ \A g \in Gens : g # gen[r] => kept'[g] = kept[g]
          BY <1>1, <4>1
        <4>3. e.token >= kept'[e.gen]
          BY <1>1, <4>2 DEF Entries
        <4>4. \A g \in Gens : kept'[g] > 0 => g \in saved'
          BY <1>1, <4>2 DEF TokensKept
        <4>. QED
          BY <1>3, <3>1, <4>3, <4>4 DEF TokensKept, NewestTokenKept
      <3>2. CASE o # "ok"
        BY <1>3, <3>2 DEF TokensKept, NewestTokenKept
      <3>. QED
        BY <3>1, <3>2
    <2>2. OwnersSaved'
      BY <1>1, <1>3 DEF OwnersSaved, AbandonedTokensWithdrawn
    <2>3. PathNamed' /\ JournalTells'
      BY <1>2, <1>3 DEF PathNamed, JournalTells
    <2>4. OnlyDifference'
      BY <1>2, <1>4 DEF OnlyDifference
    <2>5. SettledMatch'
      <3>1. edits = 0 => \A c \in Caches : Matches(Owner(c), config, resolved)
        BY <1>1 DEF SettledMatch
      <3>2. edits = 0 => Matches(Owner(e), config, resolved)
        BY <1>1, <3>1 DEF Caches
      <3>. QED
        BY <1>2, <1>3, <3>1, <3>2 DEF SettledMatch
    <2>. QED
      BY <2>1, <2>2, <2>3, <2>4, <2>5
  <1>6. /\ pc' = [pc EXCEPT ![r] = pc'[r]] /\ pc'[r] \in {"verify", "idle", "ready"}
        /\ resume' \in {resume, "none"} /\ resume # "finish"
    <2>1. resume # "finish"
      BY <1>1 DEF JInv, Finishing
    <2>. QED
      BY <1>1, <2>1 DEF Goto, Release, IInv, TypeOK, ControlOK
  <1>7. PKnows(r)'
    BY <1>1, <1>2, <1>6 DEF PKnows, RefresherKnows, RecoveryKnows, SettlerKnows, SettleSteps
  <1>8. Finishing'
    BY <1>6 DEF Finishing
  <1>. QED
    BY <1>1, <1>2, <1>5, <1>6, <1>7, <1>8, HolderKeeps

LEMMA PersistTokenKeeps == ASSUME IInv, JInv, NEW r \in Refreshers, PersistToken(r) PROVE JInv'
  <1>1. /\ pc[r] = "persist" /\ lock = r /\ r \in Procs /\ gen[r] \in Gens
        /\ UNCHANGED <<frozen, gen, issued, saved, edits>>
        /\ fresh' = [fresh EXCEPT ![r] = 0]
        /\ fresh[r] >= kept[gen[r]] /\ fresh[r] \in Nat
    BY DEF PersistToken, IInv, TypeOK, LocalsOK, Procs, BuiltFor, JInv, StepsInv, RefresherKnows
  <1>2. \A q \in Procs : q # r => fresh'[q] = fresh[q]
    BY <1>1 DEF IInv, TypeOK, LocalsOK
  <1>3. CASE Release(r, "idle", "none") /\ UNCHANGED <<files, kept, faults>>
    BY <1>1, <1>2, <1>3, ReleaseKeeps DEF Locked
  <1>4. ASSUME Owner(cache) = gen[r], NEW o \in Outcomes, ReplaceCache([gen |-> gen[r], token |-> fresh[r]], o),
               kept' = IF o = "ok" THEN [kept EXCEPT ![gen[r]] = fresh[r]] ELSE kept,
               IF o = "ok" THEN Goto(r, "verify") ELSE Release(r, "idle", "none")
        PROVE  JInv'
    <2> DEFINE e == [gen |-> gen[r], token |-> fresh[r]]
    <2>1. e \in Entries /\ e.gen = gen[r] /\ e.token = fresh[r]
      BY <1>1 DEF Entries
    <2>2. ReplaceCache(e, o)
      BY <1>4
    <2>. HIDE DEF e
    <2>. QED
      BY <1>1, <1>2, <1>4, <2>1, <2>2, SameOwnerKeeps
  <1>. QED
    BY <1>3, <1>4 DEF PersistToken

LEMMA StoreCredentialKeeps == ASSUME IInv, JInv, NEW r \in Refreshers, StoreCredential(r) PROVE JInv'
  <1>1. /\ pc[r] = "exchange" /\ lock = r /\ r \in Procs /\ gen[r] \in Gens
        /\ UNCHANGED <<frozen, gen, fresh, issued, saved, edits>>
    BY DEF StoreCredential, IInv, Procs, BuiltFor
  <1>2. CASE Release(r, "idle", "none") /\ UNCHANGED <<files, kept, faults>>
    BY <1>1, <1>2, ReleaseKeeps DEF Locked
  <1>3. ASSUME Owner(cache) = gen[r], NEW o \in Outcomes, ReplaceCache(cache, o),
               kept' = IF o = "ok" THEN [kept EXCEPT ![gen[r]] = cache.token] ELSE kept,
               Release(r, IF o = "ok" THEN "ready" ELSE "idle", "none")
        PROVE  JInv'
    <2>1. cache \in Entries /\ cache # NoEntry /\ cache.gen = gen[r]
      BY <1>1, <1>3, NamesAssumption DEF IInv, TypeOK, FilesOK, Owner
    <2>2. cache.token >= kept[gen[r]]
      BY <2>1 DEF JInv, FilesInv, TokensKept, NewestTokenKept, Caches
    <2>. QED
      BY <1>1, <1>3, <2>1, <2>2, SameOwnerKeeps
  <1>. QED
    BY <1>2, <1>3 DEF StoreCredential

-----------------------------------------------------------------------------
(***************************************************************************)
(* The steps of the environment.                                           *)
(***************************************************************************)
\* A power loss takes back at most the login a durable journal names.
LEMMA PowerLossKeeps == ASSUME IInv, JInv, PowerLoss PROVE JInv'
  <1>1. /\ UNCHANGED <<resolved, frozen, gen, issued, saved, kept, edits>>
        /\ config' \in [Targets -> ConfigValues]
        /\ \A t \in Targets : config'[t] \in {config[t], configD[t]}
        /\ cache' \in {cache, cacheD} /\ journal' \in {journal, journalD}
        /\ configD' = config' /\ cacheD' = cache' /\ journalD' = journal'
        /\ lock' = Free /\ verdict' = "none" /\ resume' = "none"
        /\ pc' = [p \in Procs |-> IF pc[p] = "start" THEN "start" ELSE Idle(p)]
    BY DEF PowerLoss
  <1>2. config \in [Targets -> ConfigValues] /\ configD \in [Targets -> ConfigValues]
    BY DEF IInv, TypeOK, FilesOK
  <1>3. Caches' \subseteq Caches /\ Pending' \subseteq Pending /\ Pending' \subseteq {journal'}
    BY <1>1 DEF Caches, Pending
  <1>4. FilesInv'
    <2>. USE DEF JInv, FilesInv
    <2>1. TokensKept' /\ OwnersSaved' /\ PathNamed'
      BY <1>1, <1>3 DEF TokensKept, NewestTokenKept, OwnersSaved, AbandonedTokensWithdrawn, PathNamed
    <2>2. JournalTells'
      <3>1. SUFFICES ASSUME edits = 0, NEW j \in Pending, j = journal'
                     PROVE  /\ j.target = resolved[j.path]
                            /\ {config'[j.target], configD'[j.target]} \subseteq {j.login, j.old}
                            /\ Matches(Owner(j.previous), Undone(config', j), resolved)
        BY <1>1, <1>3 DEF JournalTells
      <3>2. j.target \in Targets
        BY DEF IInv, TypeOK, FilesOK, Journals, Pending
      <3>3. \A u \in Targets : u # j.target => config'[u] = config[u]
        BY <1>1, <3>1 DEF OnlyDifference
      <3>4. Undone(config', j) = Undone(config, j)
        BY <1>1, <1>2, <3>3 DEF Undone
      <3>. QED
        BY <1>1, <3>1, <3>2, <3>4 DEF JournalTells
    <2>3. OnlyDifference'
      BY <1>1 DEF OnlyDifference
    <2>4. SettledMatch'
      <3>1. SUFFICES ASSUME edits = 0, journal' = NoJournal, NEW c \in Caches
                     PROVE  Matches(Owner(c), config', resolved)
        BY <1>1, <1>3 DEF SettledMatch
      <3>2. config = configD
        BY <1>1, <3>1, SameConfigs
      <3>3. config' = config
        BY <1>1, <1>2, <3>2
      <3>. QED
        BY <1>1, <3>1, <3>3 DEF SettledMatch
    <2>. QED
      BY <2>1, <2>2, <2>3, <2>4
  <1>5. \A p \in Procs : pc'[p] \in {"start", "idle", "done"} /\ (pc[p] = "start" => pc'[p] = "start")
    BY <1>1 DEF Idle
  <1>6. StepsInv'
    <2>1. ASSUME NEW r \in Refreshers PROVE RefresherKnows(r)'
      <3>1. r \in Procs /\ r \notin Logins /\ (pc[r] = "idle" => pc'[r] = "idle")
        BY <1>1, NamesAssumption DEF Procs, Idle
      <3>. QED
        BY <1>1, <1>5, <3>1 DEF RefresherKnows, RefreshSteps, JInv, StepsInv
    <2>2. ASSUME NEW l \in Logins PROVE LoginKnows(l)'
      <3>1. l \in Procs
        BY DEF Procs
      <3>. QED
        BY <1>1, <1>5, <3>1 DEF LoginKnows, JInv, StepsInv
    <2>3. ASSUME NEW p \in Procs PROVE RecoveryKnows(p)' /\ SettlerKnows(p)'
      BY <1>5, <2>3 DEF RecoveryKnows, SettlerKnows, SettleSteps
    <2>. QED
      BY <2>1, <2>2, <2>3 DEF StepsInv
  <1>7. Finishing'
    BY <1>1 DEF Finishing
  <1>. QED
    BY <1>4, <1>6, <1>7 DEF JInv

\* After an outside edit what is left to know does not depend on the
\* configuration.
LEMMA EditKeeps == ASSUME IInv, JInv, EditConfig \/ Relink PROVE JInv'
  <1>1. /\ UNCHANGED <<cache, cacheD, journal, journalD, lock, locals, issued, saved, kept, faults>>
        /\ edits' # 0
    BY DEF EditConfig, Relink, IInv, TypeOK, CountersOK
  <1>2. UNCHANGED <<pc, frozen, gen, fresh, result, verdict, resume>>
    BY <1>1 DEF locals
  <1>3. Caches' = Caches /\ Pending' = Pending
    BY <1>1 DEF Caches, Pending
  <1>4. FilesInv'
    BY <1>1, <1>3 DEF JInv, FilesInv, TokensKept, NewestTokenKept, OwnersSaved, AbandonedTokensWithdrawn,
       PathNamed, JournalTells, OnlyDifference, SettledMatch
  <1>5. StepsInv'
    BY <1>1, <1>2 DEF JInv, StepsInv, RefresherKnows, LoginKnows, RecoveryKnows, SettlerKnows
  <1>6. Finishing'
    BY <1>1, <1>2 DEF JInv, Finishing
  <1>. QED
    BY <1>4, <1>5, <1>6 DEF JInv

LEMMA StutterKeeps == ASSUME IInv, JInv, UNCHANGED vars PROVE JInv'
  <1>1. UNCHANGED <<resolved, config, configD, cache, cacheD, journal, journalD>>
    BY DEF vars, files
  <1>2. UNCHANGED <<lock, pc, frozen, gen, fresh, result, verdict, resume, issued, saved, kept, faults, edits>>
    BY DEF vars, locals
  <1>3. FilesInv'
    BY <1>1, <1>2, SameFiles DEF JInv, files
  <1>4. StepsInv'
    BY <1>1, <1>2 DEF JInv, StepsInv, RefresherKnows, LoginKnows, RecoveryKnows, SettlerKnows
  <1>5. Finishing'
    BY <1>1, <1>2 DEF JInv, Finishing
  <1>. QED
    BY <1>3, <1>4, <1>5 DEF JInv

-----------------------------------------------------------------------------
(***************************************************************************)
(* The theorems about what the files say.                                  *)
(***************************************************************************)
LEMMA InitAgreement == Init => JInv
  <1>. SUFFICES ASSUME Init PROVE JInv
    OBVIOUS
  <1>. USE NamesAssumption DEF Init
  <1>1. Caches = {cache} /\ Pending = {} /\ config = configD
    BY DEF Caches, Pending
  <1>2. cache \in [gen : OldGens, token : {0}] \/ cache = NoEntry
    OBVIOUS
  <1>3. Owner(cache) \in OldGens \cup {NoGen} /\ Owner(cache) \notin Logins
    BY <1>2 DEF Owner, Gens
  <1>4. TokensKept
    BY <1>1, <1>2 DEF TokensKept, NewestTokenKept, Gens
  <1>5. OwnersSaved
    BY <1>1, <1>3 DEF OwnersSaved, AbandonedTokensWithdrawn
  <1>6. PathNamed /\ JournalTells /\ OnlyDifference
    BY <1>1 DEF PathNamed, JournalTells, OnlyDifference
  <1>7. Matches(Owner(cache), config, resolved)
    <2>1. \A t \in Targets : config[t] \in Gens => Owner(cache) = config[t]
      BY DEF Gens
    <2>. QED
      BY <1>3, <2>1 DEF Matches
  <1>8. SettledMatch
    BY <1>1, <1>7 DEF SettledMatch
  <1>9. \A p \in Procs : pc[p] = IF p \in Logins THEN "start" ELSE "idle"
    OBVIOUS
  <1>10. StepsInv
    <2>1. \A r \in Refreshers : RefresherKnows(r)
      BY <1>9 DEF RefresherKnows, RefreshSteps, Procs
    <2>2. \A l \in Logins : LoginKnows(l)
      BY <1>9 DEF LoginKnows, Procs
    <2>3. \A p \in Procs : RecoveryKnows(p) /\ SettlerKnows(p)
      BY <1>9 DEF RecoveryKnows, SettlerKnows, SettleSteps
    <2>. QED
      BY <2>1, <2>2, <2>3 DEF StepsInv
  <1>11. Finishing
    BY DEF Finishing
  <1>. QED
    BY <1>4, <1>5, <1>6, <1>8, <1>10, <1>11 DEF JInv, FilesInv

LEMMA NextAgreement == IInv /\ JInv /\ [Next]_vars => JInv'
  <1>. SUFFICES ASSUME IInv, JInv, [Next]_vars PROVE JInv'
    OBVIOUS
  <1>1. ASSUME NEW p \in Procs, Recover(p) \/ RecoveryFails(p) \/ Locking(p) \/ Crash(p) PROVE JInv'
    BY <1>1, ClassifyKeeps, SyncConfigKeeps, SettleKeeps, ConfirmKeeps, ForgetKeeps, RecoveryFailsKeeps,
       AcquireLockKeeps, LockTimeoutKeeps, CrashKeeps DEF Recover, Locking
  <1>2. ASSUME NEW l \in Logins, Configure(l) PROVE JInv'
    BY <1>2, FreezeKeeps, AuthorizeKeeps, CompareKeeps, CommitJournalKeeps, CommitCacheKeeps, SaveConfigKeeps
       DEF Configure
  <1>3. ASSUME NEW r \in Refreshers, Refresh(r) \/ Quit(r) PROVE JInv'
    BY <1>3, ConstructKeeps, BuiltKeeps, CheckSourceKeeps, RotateTokenKeeps, PersistTokenKeeps, VerifySourceKeeps,
       StoreCredentialKeeps, QuitKeeps DEF Refresh
  <1>. QED
    BY <1>1, <1>2, <1>3, PowerLossKeeps, EditKeeps, StutterKeeps DEF Next

\* The files, the journal and what the commands know of them agree in every
\* state: the inductive invariant behind the next three theorems.
THEOREM Agreement == Spec => []JInv
  BY InitAgreement, NextAgreement, Invariant, PTL DEF Spec

\* Logins with their tokens and no others, whatever fails: when no journal is
\* left, or may be left after a power loss, the configuration files and the
\* cache agree (recoverNativeOAuthTransaction).
THEOREM FilesAlwaysAgree == Spec => []FilesAgree
  <1>1. IInv /\ JInv => FilesAgree
    <2>. SUFFICES ASSUME IInv, JInv PROVE FilesAgree
      OBVIOUS
    <2>1. Settled => config = configD
      BY SameConfigs DEF Settled
    <2>2. Settled => \A c \in Caches : Matches(Owner(c), config, resolved)
      BY DEF Settled, JInv, FilesInv, SettledMatch
    <2>3. ConfigHasTokens
      BY <2>1, <2>2 DEF ConfigHasTokens, Matches
    <2>4. TokensHaveConfig
      BY <2>1, <2>2 DEF TokensHaveConfig, Matches
    <2>5. AbandonedTokensWithdrawn
      BY DEF JInv, FilesInv, OwnersSaved
    <2>. QED
      BY <2>3, <2>4, <2>5 DEF FilesAgree
  <1>. QED
    BY <1>1, Invariant, Agreement, PTL

\* The identity service accepts a refresh token once: neither the cache nor
\* what a recovery would write back is ever older than a token that was made
\* durable (InstallNext, RestorePrevious and the refresh under the lock).
THEOREM TokensNeverFallBack == Spec => []NewestTokenKept
  <1>1. JInv => NewestTokenKept
    BY DEF JInv, FilesInv, TokensKept
  <1>. QED
    BY <1>1, Agreement, PTL

-----------------------------------------------------------------------------
(***************************************************************************)
(* When a login is reported as successful.                                 *)
(***************************************************************************)
NoNewSuccess == \A l \in Logins : result'[l] = "ok" => result[l] = "ok"

LEMMA EndsUnsuccessful ==
  ASSUME IInv, NEW p \in Procs, NEW next, NEW res, NEW ret, res # "ok" \/ res = result[p],
         Release(p, next, res) \/ StartRecovery(p, ret, res) \/ Goto(p, next)
  PROVE  NoNewSuccess
  <1>1. result' = result \/ (p \in Logins /\ result' = [result EXCEPT ![p] = res])
    BY DEF Release, StartRecovery, Goto
  <1>. QED
    BY <1>1 DEF NoNewSuccess, IInv, TypeOK, ControlOK

\* A recovery makes a success only of the login it was the last step of.
LEMMA RecoveredResult ==
  ASSUME IInv, NEW p \in Procs, NEW err \in Errors, Recovered(p, err), resume # "finish" \/ err # "none"
  PROVE  NoNewSuccess
  <1>1. CASE resume = "abort"
    <2>1. Release(p, "done", Worse(result[p], err)) /\ Worse(result[p], err) # "ok"
      BY <1>1 DEF Recovered, Worse
    <2>. QED
      BY <2>1, EndsUnsuccessful
  <1>2. CASE resume = "finish"
    <2>1. Release(p, "done", err) /\ err # "ok"
      BY <1>2 DEF Recovered, Errors
    <2>. QED
      BY <2>1, EndsUnsuccessful
  <1>3. CASE resume \in {"compare", "check"} /\ err = "none"
    BY <1>3 DEF Recovered, NoNewSuccess
  <1>4. CASE resume \in {"login", "built"} /\ err = "none"
    <2>1. Release(p, resume, result[p])
      BY <1>4 DEF Recovered
    <2>. QED
      BY <2>1, EndsUnsuccessful
  <1>5. CASE resume \in {"login", "built", "compare", "check"} /\ err # "none"
    <2>1. Release(p, Idle(p), err) /\ err # "ok"
      BY <1>5 DEF Recovered, Errors
    <2>. QED
      BY <2>1, EndsUnsuccessful
  <1>. QED
    BY <1>1, <1>2, <1>3, <1>4, <1>5 DEF Recovered

\* The recovery ends a login well only when it has deleted its journal.
LEMMA RecoveryResult ==
  ASSUME IInv, JInv, NEW p \in Procs, Recover(p) \/ RecoveryFails(p)
  PROVE  \/ NoNewSuccess
         \/ Forget(p) /\ resume = "finish" /\ journal' = NoJournal /\ journalD' = NoJournal /\ cacheD' = cache'
  <1>1. ASSUME Recovered(p, "changed") \/ Recovered(p, "uncertain") PROVE NoNewSuccess
    BY <1>1, RecoveredResult DEF Errors
  <1>2. ASSUME NEW label, Goto(p, label) PROVE NoNewSuccess
    BY <1>2 DEF Goto, NoNewSuccess
  <1>3. ASSUME NEW o \in Outcomes, o # "ok", Recovered(p, StepError(o)) PROVE NoNewSuccess
    <2>1. StepError(o) \in Errors /\ StepError(o) # "none"
      BY <1>3, StepErrorType DEF Outcomes, Errors
    <2>. QED
      BY <1>3, <2>1, RecoveredResult
  <1>4. CASE Classify(p)
    <2>1. CASE journal = NoJournal
      <3>1. resume # "finish"
        BY <2>1 DEF JInv, Finishing
      <3>. QED
        BY <1>4, <2>1, <3>1, RecoveredResult DEF Classify, Errors
    <2>2. CASE journal # NoJournal
      BY <1>4, <2>2 DEF Classify, NoNewSuccess
    <2>. QED
      BY <2>1, <2>2
  <1>5. CASE RecoveryFails(p)
    BY <1>3, <1>5 DEF RecoveryFails, Outcomes
  <1>6. CASE SyncConfig(p)
    BY <1>1, <1>2, <1>6 DEF SyncConfig
  <1>7. CASE Settle(p)
    <2>1. ASSUME NEW e, NEW next, SettleBy(p, e, next) PROVE NoNewSuccess
      BY <1>2, <1>3, <2>1 DEF SettleBy
    <2>2. ASSUME Keep(p) \/ Refuse(p) PROVE NoNewSuccess
      BY <1>1, <1>2, <2>2 DEF Keep, Refuse
    <2>. QED
      BY <1>7, <2>1, <2>2 DEF Settle, InstallNext, RestorePrevious
  <1>8. CASE Confirm(p)
    BY <1>1, <1>2, <1>8 DEF Confirm
  <1>9. CASE Forget(p)
    <2>1. PICK o \in Outcomes : /\ ReplaceJournal(NoJournal, o)
                                /\ Recovered(p, StepError(IF o = "ok" THEN "none" ELSE o))
      BY <1>9 DEF Forget
    <2>2. CASE o # "ok"
      BY <1>3, <2>1, <2>2
    <2>3. CASE o = "ok"
      <3>1. journal' = NoJournal /\ journalD' = NoJournal /\ cacheD' = cache'
        BY <2>1, <2>3 DEF ReplaceJournal
      <3>2. CASE resume # "finish"
        <4>1. StepError("none") \in Errors
          BY StepErrorType DEF Errors
        <4>. QED
          BY <2>1, <2>3, <3>2, <4>1, RecoveredResult
      <3>. QED
        BY <1>9, <3>1, <3>2
    <2>. QED
      BY <2>2, <2>3
  <1>. QED
    BY <1>4, <1>5, <1>6, <1>7, <1>8, <1>9 DEF Recover

\* No other step reports a success.
LEMMA OtherResult ==
  ASSUME IInv, [Next]_vars, \A p \in Procs : ~Recover(p) /\ ~RecoveryFails(p)
  PROVE  NoNewSuccess
  <1>1. ASSUME NEW p \in Procs, AcquireLock(p) PROVE NoNewSuccess
    <2>1. \E ret : StartRecovery(p, ret, IF p \in Logins THEN result[p] ELSE "none")
      BY <1>1 DEF AcquireLock, Enter
    <2>. QED
      BY <2>1, EndsUnsuccessful
  <1>2. ASSUME NEW p \in Procs, LockTimeout(p) \/ Crash(p) PROVE NoNewSuccess
    BY <1>2 DEF LockTimeout, Crash, NoNewSuccess, IInv, TypeOK, ControlOK
  <1>3. ASSUME NEW l \in Logins, Configure(l) PROVE NoNewSuccess
    <2>1. l \in Procs
      BY DEF Procs
    <2>2. CASE Authorize(l)
      BY <2>2 DEF Authorize, Goto, NoNewSuccess, IInv, TypeOK, ControlOK
    <2>3. CASE Freeze(l) \/ Compare(l)
      BY <2>1, <2>3, EndsUnsuccessful DEF Freeze, Compare
    <2>4. CASE CommitJournal(l)
      BY <2>1, <2>4, EndsUnsuccessful DEF CommitJournal
    <2>5. CASE CommitCache(l)
      BY <2>1, <2>5, EndsUnsuccessful DEF CommitCache
    <2>6. CASE SaveConfig(l)
      <3>1. \E ret, res, next : /\ res # "ok"
                                /\ StartRecovery(l, ret, res) \/ Release(l, next, res)
        BY <2>6 DEF SaveConfig
      <3>. QED
        BY <2>1, <3>1, EndsUnsuccessful
    <2>. QED
      BY <1>3, <2>2, <2>3, <2>4, <2>5, <2>6 DEF Configure
  <1>4. ASSUME NEW r \in Refreshers, Refresh(r) \/ Quit(r) PROVE NoNewSuccess
    <2>1. \E next : Goto(r, next) \/ Release(r, next, "none")
      <3>1. CASE Construct(r) \/ Built(r) \/ Quit(r) \/ VerifySource(r) \/ CheckSource(r)
        BY <3>1 DEF Construct, Built, Quit, VerifySource, CheckSource
      <3>2. CASE RotateToken(r) \/ PersistToken(r) \/ StoreCredential(r)
        BY <3>2 DEF RotateToken, PersistToken, StoreCredential
      <3>. QED
        BY <1>4, <3>1, <3>2 DEF Refresh
    <2>2. r \in Procs
      BY DEF Procs
    <2>. QED
      BY <2>1, <2>2, EndsUnsuccessful
  <1>5. CASE PowerLoss
    BY <1>5 DEF PowerLoss, NoNewSuccess
  <1>6. CASE EditConfig \/ Relink \/ UNCHANGED vars
    <2>1. result' = result
      BY <1>6 DEF EditConfig, Relink, vars, locals
    <2>. QED
      BY <2>1 DEF NoNewSuccess
  <1>. QED
    BY <1>1, <1>2, <1>3, <1>4, <1>5, <1>6 DEF Next, Locking

\* The journal a successful login leaves behind is its own, settled.
LEMMA LastRecovery ==
  ASSUME IInv, JInv, NEW p \in Procs, Forget(p), resume = "finish", edits = 0
  PROVE  p \in Logins /\ Owner(cache') = p /\ configD'[resolved[PathOf[p]]] = p
  <1>1. /\ lock = p /\ pc[p] = "forget" /\ UNCHANGED <<cache, configD>>
        /\ p \in Logins /\ journal # NoJournal /\ journal.login = p
        /\ verdict \in {"none", "new"} /\ config[journal.target] = p
    BY DEF Forget, ReplaceJournal, JInv, Finishing
  <1>2. config = configD /\ verdict = "new" /\ Owner(cache) = p
    BY <1>1 DEF JInv, StepsInv, SettlerKnows, RecoveryKnows, SettleSteps
  <1>3. journal.target = resolved[PathOf[p]]
    BY <1>1 DEF JInv, FilesInv, JournalTells, PathNamed, Pending
  <1>. QED
    BY <1>1, <1>2, <1>3 DEF Owner

\* A login is reported as successful when its journal is gone, and then its
\* generation is in the configuration and its tokens are in the cache, durably
\* (ConfigureOAuthProfile after SaveContext and the final recovery).
THEOREM SuccessLasts == Spec => SuccessIsDurable
  <1>1. ASSUME IInv, JInv, [Next]_vars, NEW l \in Logins, result[l] # "ok", result'[l] = "ok"
        PROVE  /\ journal' = NoJournal /\ journalD' = NoJournal
               /\ edits = 0 => /\ Owner(cache') = l /\ cacheD' = cache'
                               /\ configD'[resolved[PathOf[l]]] = l
    <2>1. ~NoNewSuccess
      BY <1>1 DEF NoNewSuccess
    <2>2. PICK p \in Procs : Recover(p) \/ RecoveryFails(p)
      BY <1>1, <2>1, OtherResult
    <2>3. /\ Forget(p) /\ resume = "finish"
          /\ journal' = NoJournal /\ journalD' = NoJournal /\ cacheD' = cache'
      BY <1>1, <2>1, <2>2, RecoveryResult
    <2>4. l = p
      <3>1. \E res : Release(p, "done", res)
        BY <2>3 DEF Forget, Recovered
      <3>2. p \in Logins
        BY <1>1, <2>3 DEF JInv, Finishing, Forget
      <3>. QED
        BY <1>1, <3>1, <3>2 DEF Release, IInv, TypeOK, ControlOK
    <2>. QED
      BY <1>1, <2>3, <2>4, LastRecovery
  <1>2. IInv /\ JInv /\ [Next]_vars =>
          [\A l \in Logins : result[l] # "ok" /\ result'[l] = "ok" =>
             /\ journal' = NoJournal /\ journalD' = NoJournal
             /\ edits = 0 => /\ Owner(cache') = l /\ cacheD' = cache'
                             /\ configD'[resolved[PathOf[l]]] = l]_vars
    BY <1>1
  <1>. QED
    BY <1>2, Invariant, Agreement, PTL DEF Spec, SuccessIsDurable
=============================================================================
