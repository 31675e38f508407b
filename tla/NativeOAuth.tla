---------------------------- MODULE NativeOAuth ----------------------------
(***************************************************************************)
(* The native OAuth login of one profile: `ecctl configure --mode OAuth`   *)
(* replaces two files that must change together, the login generation in   *)
(* the configuration file and the token entry in the private credential    *)
(* cache.  A journal beside the cache makes the pair recoverable; every    *)
(* later command recovers it under the profile lock before it uses the     *)
(* cache (pkg/aliyun/oauth_configure.go, native_oauth_transaction.go,      *)
(* credential_cache.go, pkg/config/config.go, internal/configfile).        *)
(*                                                                         *)
(* Each file is modelled twice: what a reader sees, and what survives a    *)
(* power loss (the suffix D).  A replacement is a rename followed by a     *)
(* directory sync; when the sync fails the new content is visible but not  *)
(* durable and the code reports a PostCommitError.                         *)
(***************************************************************************)
EXTENDS Integers

CONSTANTS
  Logins,      \* configure commands; each draws one fresh login generation
  Refreshers,  \* commands that use the profile's credential provider
  OldGens,     \* login generations of sessions completed before the model
  Foreign,     \* config states without a native OAuth login (no file, no profile, other mode)
  Paths,       \* requested configuration paths
  Targets,     \* files those paths may resolve to
  PathOf,      \* the configuration path each command is given
  NoGen, NoEntry, NoJournal, Free,
  MaxToken,    \* bound: token rotations of one generation
  MaxFaults,   \* bound: crashes, power losses and failed system calls
  MaxEdits     \* bound: edits of the configuration from outside the protocol

Procs == Logins \cup Refreshers
Gens == Logins \cup OldGens
ConfigValues == Gens \cup Foreign
Entries == [gen : Gens, token : Nat]
Journals == [login : Logins, path : Paths, target : Targets,
             old : ConfigValues, previous : Entries \cup {NoEntry}]

ASSUME PathOfAssumption == PathOf \in [Procs -> Paths]
ASSUME NamesAssumption ==
  /\ Logins \cap Refreshers = {} /\ Logins \cap OldGens = {}
  /\ Gens \cap Foreign = {}
  /\ NoGen \notin Gens /\ Free \notin Procs
  /\ NoEntry \notin Entries /\ NoJournal \notin Journals
ASSUME BoundsAssumption == MaxToken \in Nat /\ MaxFaults \in Nat /\ MaxEdits \in Nat

VARIABLES
  resolved,          \* the target each requested path resolves to (symlinks)
  config, configD,   \* what each target says of the profile
  cache, cacheD,     \* the credential cache entry
  journal, journalD, \* the transaction journal beside the cache
  lock,              \* holder of the profile lock
  pc,                \* where each command is
  frozen,            \* the config state and target a command read
  gen,               \* the generation a refresher was built for
  fresh,             \* the rotated token a refresher holds in memory
  result,            \* how a login ended
  verdict, resume,   \* the holder's recovery: its case and where it returns to
  issued,            \* the refresh token the identity service accepts, by generation
  saved,             \* history: generations some configuration file has held
  kept,              \* history: the newest refresh token made durable, by generation
  faults, edits

files == <<resolved, config, configD, cache, cacheD, journal, journalD>>
locals == <<pc, frozen, gen, fresh, result, verdict, resume>>
vars == <<files, lock, locals, issued, saved, kept, faults, edits>>

-----------------------------------------------------------------------------
Owner(e) == IF e = NoEntry THEN NoGen ELSE e.gen
ConfigAt(path) == config[resolved[path]]

\* The three ways a replacement or a removal can end.
Outcomes == {"ok", "failed", "uncertain"}
Charge(o) == /\ o = "ok" \/ faults < MaxFaults
             /\ faults' = IF o = "ok" THEN faults ELSE faults + 1

\* The cache and the journal share a directory, so a directory sync makes
\* both durable.
ReplaceCache(e, o) ==
  /\ cache' = IF o = "failed" THEN cache ELSE e
  /\ cacheD' = IF o = "ok" THEN e ELSE cacheD
  /\ journalD' = IF o = "ok" THEN journal ELSE journalD
  /\ UNCHANGED <<resolved, config, configD, journal>>
ReplaceJournal(j, o) ==
  /\ journal' = IF o = "failed" THEN journal ELSE j
  /\ journalD' = IF o = "ok" THEN j ELSE journalD
  /\ cacheD' = IF o = "ok" THEN cache ELSE cacheD
  /\ UNCHANGED <<resolved, config, configD, cache>>

\* How errors combine: classifyOAuthPersistenceError looks for a
\* PostCommitError first and for a changed profile next.
Worse(a, b) == IF "uncertain" \in {a, b} THEN "uncertain"
               ELSE IF "changed" \in {a, b} THEN "changed"
               ELSE IF "failed" \in {a, b} THEN "failed" ELSE "none"

Idle(p) == IF p \in Logins THEN "done" ELSE "idle"
Release(p, next, res) ==
  /\ lock' = Free
  /\ pc' = [pc EXCEPT ![p] = next]
  /\ result' = IF p \in Logins THEN [result EXCEPT ![p] = res] ELSE result
  /\ verdict' = "none" /\ resume' = "none"
Goto(p, label) ==
  /\ pc' = [pc EXCEPT ![p] = label]
  /\ UNCHANGED <<lock, result, verdict, resume>>
StartRecovery(p, ret, res) ==
  /\ pc' = [pc EXCEPT ![p] = "classify"]
  /\ resume' = ret /\ verdict' = "none"
  /\ result' = IF p \in Logins THEN [result EXCEPT ![p] = res] ELSE result

-----------------------------------------------------------------------------
(***************************************************************************)
(* recoverNativeOAuthTransaction, run by the holder of the profile lock.   *)
(***************************************************************************)
\* Where the command goes once recovery returned err ("none": nil).
Recovered(p, err) ==
  \/ resume = "abort" /\ Release(p, "done", Worse(result[p], err))
  \/ resume = "finish" /\ Release(p, "done", IF err = "none" THEN "ok" ELSE err)
  \/ /\ resume \in {"compare", "check"} /\ err = "none"
     /\ pc' = [pc EXCEPT ![p] = resume]
     /\ resume' = "none" /\ verdict' = "none"
     /\ UNCHANGED <<lock, result>>
  \/ resume \in {"login", "built"} /\ err = "none" /\ Release(p, resume, result[p])
  \/ resume \in {"login", "built", "compare", "check"} /\ err # "none" /\ Release(p, Idle(p), err)

\* The error of a recovery step that failed with err, in the cases that
\* report a changed profile whatever happens.
MutStepError(err) == \* mutant: only a changed profile is reported
  IF verdict \in {"moved", "other"} THEN "changed" ELSE "none"
StepError(err) == IF verdict \in {"moved", "other"} THEN Worse("changed", err) ELSE err

Classify(p) ==
  /\ pc[p] = "classify" /\ lock = p
  /\ UNCHANGED <<files, frozen, gen, fresh, issued, saved, kept, edits>>
  /\ \/ journal = NoJournal /\ Recovered(p, "none") /\ UNCHANGED faults
     \/ /\ journal # NoJournal
        /\ verdict' = IF resolved[journal.path] # journal.target THEN "moved"
                      ELSE IF ConfigAt(journal.path) = journal.login THEN "new"
                      ELSE IF ConfigAt(journal.path) = journal.old THEN "old" ELSE "other"
        /\ pc' = [pc EXCEPT ![p] = IF verdict' = "new" THEN "syncConfig" ELSE "settle"]
        /\ UNCHANGED <<lock, result, resume, faults>>

\* A file cannot be read, or its lock not taken: the recovery stops where it is.
RecoveryFails(p) ==
  /\ pc[p] \in {"classify", "syncConfig", "settle", "confirm", "forget"} /\ lock = p
  /\ journal # NoJournal
  /\ Charge("failed") /\ Recovered(p, StepError("failed"))
  /\ UNCHANGED <<files, frozen, gen, fresh, issued, saved, kept, edits>>

\* The saved configuration is made durable and read again before the tokens
\* of the new login are kept.
MutSyncConfig(p) == \* mutant: no sync before the journal is forgotten
  /\ pc[p] = "syncConfig" /\ lock = p
  /\ Goto(p, "settle")
  /\ UNCHANGED <<files, frozen, gen, fresh, issued, saved, kept, faults, edits>>
SyncConfig(p) ==
  /\ pc[p] = "syncConfig" /\ lock = p
  /\ UNCHANGED <<resolved, config, cache, cacheD, journal, journalD, frozen, gen, fresh, issued, saved, kept, edits>>
  /\ \/ /\ configD' = [configD EXCEPT ![journal.target] = config[journal.target]]
        /\ UNCHANGED faults
        /\ IF resolved[journal.path] = journal.target /\ ConfigAt(journal.path) = journal.login
             THEN Goto(p, "settle")
             ELSE Recovered(p, "changed")
     \/ Charge("uncertain") /\ Recovered(p, "uncertain") /\ UNCHANGED configD

\* One cache replacement of the recovery, and the step after it.
SettleBy(p, e, next) ==
  \E o \in Outcomes :
    /\ Charge(o)
    /\ ReplaceCache(e, o)
    /\ IF o = "ok" THEN Goto(p, next) ELSE Recovered(p, StepError(o))
Refuse(p) == Recovered(p, "changed") /\ UNCHANGED <<files, faults>>
Keep(p) == Goto(p, "confirm") /\ UNCHANGED <<files, faults>>

MutInstallNext(p) == \* mutant: the entry in place must be the previous one
  LET owner == Owner(cache) IN
  \/ owner \notin {NoGen, Owner(journal.previous)} /\ Refuse(p)
  \/ /\ owner \in {NoGen, Owner(journal.previous)}
     /\ SettleBy(p, [gen |-> journal.login, token |-> 0], "confirm")
InstallNext(p) ==
  LET owner == Owner(cache) IN
  \/ owner = journal.login /\ Keep(p)
  \/ owner \notin {NoGen, journal.login, Owner(journal.previous)} /\ Refuse(p)
  \/ /\ owner # journal.login /\ owner \in {NoGen, Owner(journal.previous)}
     /\ SettleBy(p, [gen |-> journal.login, token |-> 0], "confirm")

MutRestoreNothing(p) == \* mutant: without a previous entry there is nothing to restore
  IF journal.previous = NoEntry
    THEN Goto(p, "forget") /\ UNCHANGED <<files, faults>>
    ELSE SettleBy(p, journal.previous, "confirm")
RestorePrevious(p) ==
  LET owner == Owner(cache)
      before == Owner(journal.previous) IN
  \/ before # NoGen /\ owner = before /\ Keep(p)
  \/ owner \notin {NoGen, journal.login, before} /\ Refuse(p)
  \/ before # NoGen /\ owner \in {NoGen, journal.login} /\ SettleBy(p, journal.previous, "confirm")
  \/ before = NoGen /\ owner \in {NoGen, journal.login} /\ SettleBy(p, NoEntry, "forget")

Settle(p) ==
  /\ pc[p] = "settle" /\ lock = p
  /\ IF verdict = "new" THEN InstallNext(p) ELSE RestorePrevious(p)
  /\ UNCHANGED <<frozen, gen, fresh, issued, saved, kept, edits>>

\* confirmNativeOAuthCacheReplacement: sync the directory, then look again.
Confirm(p) ==
  /\ pc[p] = "confirm" /\ lock = p
  /\ UNCHANGED <<resolved, config, configD, cache, journal, frozen, gen, fresh, issued, saved, kept, edits>>
  /\ \/ /\ cacheD' = cache /\ journalD' = journal /\ UNCHANGED faults
        /\ IF Owner(cache) = IF verdict = "new" THEN journal.login ELSE Owner(journal.previous)
             THEN Goto(p, "forget")
             ELSE Recovered(p, "changed")
     \/ Charge("uncertain") /\ Recovered(p, "uncertain") /\ UNCHANGED <<cacheD, journalD>>

\* deleteNativeOAuthTransaction ends the recovery.
Forget(p) ==
  /\ pc[p] = "forget" /\ lock = p
  /\ UNCHANGED <<frozen, gen, fresh, issued, saved, kept, edits>>
  /\ \E o \in Outcomes :
       /\ Charge(o)
       /\ ReplaceJournal(NoJournal, o)
       /\ Recovered(p, StepError(IF o = "ok" THEN "none" ELSE o))

-----------------------------------------------------------------------------
(***************************************************************************)
(* The profile lock, taken with a timeout by every command.                *)
(***************************************************************************)
Read(p) == [cfg |-> ConfigAt(PathOf[p]), target |-> resolved[PathOf[p]]]

\* Whoever holds the lock recovers a pending transaction first.
MutEnter(p, ret) == \* mutant: a refresher goes straight to the cache
  IF ret = "check"
    THEN pc' = [pc EXCEPT ![p] = ret] /\ UNCHANGED <<result, verdict, resume>>
    ELSE StartRecovery(p, ret, IF p \in Logins THEN result[p] ELSE "none")
Enter(p, ret) == StartRecovery(p, ret, IF p \in Logins THEN result[p] ELSE "none")

AcquireLock(p) ==
  /\ pc[p] \in {"lock1", "lock2", "ready"} /\ lock = Free
  /\ lock' = p
  /\ frozen' = IF pc[p] = "ready" THEN [frozen EXCEPT ![p] = Read(p)] ELSE frozen
  /\ Enter(p, IF pc[p] = "ready" THEN "check"
              ELSE IF pc[p] = "lock2" THEN "compare"
              ELSE IF p \in Logins THEN "login" ELSE "built")
  /\ UNCHANGED <<files, gen, fresh, issued, saved, kept, faults, edits>>

MutLockTimeout(p) == FALSE \* mutant: the lock is awaited without a deadline
LockTimeout(p) ==
  /\ pc[p] \in {"lock1", "lock2", "ready"} /\ lock # Free
  /\ pc' = [pc EXCEPT ![p] = Idle(p)]
  /\ result' = IF p \in Logins THEN [result EXCEPT ![p] = "failed"] ELSE result
  /\ UNCHANGED <<files, lock, frozen, gen, fresh, verdict, resume, issued, saved, kept, faults, edits>>

-----------------------------------------------------------------------------
(***************************************************************************)
(* ConfigureOAuthProfile                                                   *)
(***************************************************************************)
\* The configuration is read once before the interactive login.
Freeze(l) ==
  /\ pc[l] = "start"
  /\ frozen' = [frozen EXCEPT ![l] = Read(l)]
  /\ Goto(l, "lock1")
  /\ UNCHANGED <<files, gen, fresh, issued, saved, kept, faults, edits>>

\* The browser login and the account checks, with no lock held.
Authorize(l) ==
  /\ pc[l] = "login"
  /\ \/ Goto(l, "lock2")
     \/ /\ pc' = [pc EXCEPT ![l] = "done"]
        /\ result' = [result EXCEPT ![l] = "failed"]
        /\ UNCHANGED <<lock, verdict, resume>>
  /\ UNCHANGED <<files, frozen, gen, fresh, issued, saved, kept, faults, edits>>

\* The configuration must still be what the login started from.
Compare(l) ==
  /\ pc[l] = "compare" /\ lock = l
  /\ IF Read(l) = frozen[l] THEN Goto(l, "journal") ELSE Release(l, "done", "changed")
  /\ UNCHANGED <<files, frozen, gen, fresh, issued, saved, kept, faults, edits>>

MutPrevious(l) == \* mutant: a profile without a login has nothing to restore
  IF frozen[l].cfg \in Gens THEN cache ELSE NoEntry
Previous(l) == cache

CommitJournal(l) ==
  /\ pc[l] = "journal" /\ lock = l
  /\ \E o \in Outcomes :
       /\ Charge(o)
       /\ ReplaceJournal([login |-> l, path |-> PathOf[l], target |-> frozen[l].target,
                          old |-> frozen[l].cfg, previous |-> Previous(l)], o)
       /\ IF o = "ok" THEN Goto(l, "cache") ELSE Release(l, "done", o)
  /\ UNCHANGED <<frozen, gen, fresh, issued, saved, kept, edits>>

\* The prepared replacement is committed if the cache still has the entry
\* the journal records; on failure the transaction is recovered at once.
CommitCache(l) ==
  /\ pc[l] = "cache" /\ lock = l
  /\ UNCHANGED <<frozen, gen, fresh, issued, saved, kept, edits>>
  /\ \/ /\ Owner(cache) = Owner(journal.previous)
        /\ \E o \in Outcomes :
             /\ Charge(o)
             /\ ReplaceCache([gen |-> l, token |-> 0], o)
             /\ IF o = "ok" THEN Goto(l, "save")
                ELSE StartRecovery(l, "abort", o) /\ UNCHANGED lock
     \/ /\ Owner(cache) # Owner(journal.previous)
        /\ StartRecovery(l, "abort", "changed")
        /\ UNCHANGED <<files, lock, faults>>

\* SaveContext under the config lock: re-read, re-apply the mutation against
\* the frozen expectation, replace.  A failure after the replacement became
\* visible is reported without recovering.
SaveConfig(l) ==
  /\ pc[l] = "save" /\ lock = l
  /\ UNCHANGED <<resolved, cache, cacheD, journal, journalD, frozen, gen, fresh, issued, kept, edits>>
  /\ \/ /\ Read(l) # frozen[l]
        /\ StartRecovery(l, "abort", IF Read(l).target # frozen[l].target THEN "failed" ELSE "changed")
        /\ UNCHANGED <<config, configD, saved, lock, faults>>
     \/ /\ Read(l) = frozen[l]
        /\ \E o \in Outcomes :
             /\ Charge(o)
             /\ config' = IF o = "failed" THEN config ELSE [config EXCEPT ![frozen[l].target] = l]
             /\ configD' = IF o = "ok" THEN [configD EXCEPT ![frozen[l].target] = l] ELSE configD
             /\ saved' = IF o = "failed" THEN saved ELSE saved \cup {l}
             /\ \/ o = "ok" /\ StartRecovery(l, "finish", "none") /\ UNCHANGED lock
                \/ o = "failed" /\ StartRecovery(l, "abort", "failed") /\ UNCHANGED lock
                \/ o = "uncertain" /\ Release(l, "done", "uncertain")

-----------------------------------------------------------------------------
(***************************************************************************)
(* A command that uses the profile: the provider is built for the          *)
(* generation the configuration names, and rotates the one-time refresh    *)
(* token when its credential is stale.                                     *)
(***************************************************************************)
Construct(r) ==
  /\ pc[r] = "idle" /\ ConfigAt(PathOf[r]) \in Gens
  /\ gen' = [gen EXCEPT ![r] = ConfigAt(PathOf[r])]
  /\ Goto(r, "lock1")
  /\ UNCHANGED <<files, frozen, fresh, issued, saved, kept, faults, edits>>

\* The constructor reads the cache after it released the profile lock.
Built(r) ==
  /\ pc[r] = "built"
  /\ Goto(r, IF Owner(cache) \in {NoGen, gen[r]} THEN "ready" ELSE "idle")
  /\ UNCHANGED <<files, frozen, gen, fresh, issued, saved, kept, faults, edits>>

CheckSource(r) ==
  /\ pc[r] = "check" /\ lock = r
  /\ IF frozen[r].cfg = gen[r] /\ Owner(cache) = gen[r]
       THEN \/ Goto(r, "rotate")
            \/ Goto(r, "exchange")          \* the access token is still valid
            \/ Release(r, "ready", "none")  \* the cached STS credential is still fresh
       ELSE Release(r, "idle", "none")
  /\ UNCHANGED <<files, frozen, gen, fresh, issued, saved, kept, faults, edits>>

\* The identity service accepts a refresh token once.  A lost answer loses it.
RotateToken(r) ==
  /\ pc[r] = "rotate" /\ lock = r
  /\ UNCHANGED <<files, frozen, gen, saved, kept, edits>>
  /\ \/ /\ cache.token = issued[gen[r]] /\ issued[gen[r]] < MaxToken
        /\ issued' = [issued EXCEPT ![gen[r]] = @ + 1]
        /\ \/ /\ fresh' = [fresh EXCEPT ![r] = issued[gen[r]] + 1]
              /\ Goto(r, "persist") /\ UNCHANGED faults
           \/ Charge("failed") /\ Release(r, "idle", "none") /\ UNCHANGED fresh
     \/ /\ cache.token # issued[gen[r]] \/ issued[gen[r]] = MaxToken
        /\ Release(r, "idle", "none") /\ UNCHANGED <<issued, fresh, faults>>

PersistToken(r) ==
  /\ pc[r] = "persist" /\ lock = r
  /\ UNCHANGED <<frozen, gen, issued, saved, edits>>
  /\ fresh' = [fresh EXCEPT ![r] = 0]
  /\ \/ /\ Owner(cache) = gen[r]
        /\ \E o \in Outcomes :
             /\ Charge(o)
             /\ ReplaceCache([gen |-> gen[r], token |-> fresh[r]], o)
             /\ kept' = IF o = "ok" THEN [kept EXCEPT ![gen[r]] = fresh[r]] ELSE kept
             /\ IF o = "ok" THEN Goto(r, "verify") ELSE Release(r, "idle", "none")
     \/ Owner(cache) # gen[r] /\ Release(r, "idle", "none") /\ UNCHANGED <<files, kept, faults>>

VerifySource(r) ==
  /\ pc[r] = "verify" /\ lock = r
  /\ IF Read(r) = frozen[r] THEN Goto(r, "exchange") ELSE Release(r, "idle", "none")
  /\ UNCHANGED <<files, frozen, gen, fresh, issued, saved, kept, faults, edits>>

\* The access token is exchanged for an STS credential, which is stored in
\* the same entry once the source was verified again.
StoreCredential(r) ==
  /\ pc[r] = "exchange" /\ lock = r
  /\ UNCHANGED <<frozen, gen, fresh, issued, saved, edits>>
  /\ \/ /\ Release(r, "idle", "none")  \* the exchange fails or the source has changed
        /\ UNCHANGED <<files, kept, faults>>
     \/ /\ Read(r) = frozen[r] /\ Owner(cache) = gen[r]
        /\ \E o \in Outcomes :
             /\ Charge(o)
             /\ ReplaceCache(cache, o)
             /\ kept' = IF o = "ok" THEN [kept EXCEPT ![gen[r]] = cache.token] ELSE kept
             /\ Release(r, IF o = "ok" THEN "ready" ELSE "idle", "none")

-----------------------------------------------------------------------------
(***************************************************************************)
(* The environment: a command ends, a process dies, the machine loses      *)
(* power, the user edits the configuration or repoints its symlink.        *)
(***************************************************************************)
Quit(r) ==
  /\ pc[r] = "ready"
  /\ Goto(r, "idle")
  /\ UNCHANGED <<files, frozen, gen, fresh, issued, saved, kept, faults, edits>>

Crash(p) ==
  /\ pc[p] \notin {"start", "idle", "done"}
  /\ Charge("failed")
  /\ pc' = [pc EXCEPT ![p] = Idle(p)]
  /\ result' = IF p \in Logins THEN [result EXCEPT ![p] = "crashed"] ELSE result
  /\ fresh' = [fresh EXCEPT ![p] = 0]
  /\ IF lock = p THEN lock' = Free /\ verdict' = "none" /\ resume' = "none"
                 ELSE UNCHANGED <<lock, verdict, resume>>
  /\ UNCHANGED <<files, frozen, gen, issued, saved, kept, edits>>

PowerLoss ==
  /\ Charge("failed")
  /\ config' \in {c \in [Targets -> ConfigValues] : \A t \in Targets : c[t] \in {config[t], configD[t]}}
  /\ cache' \in {cache, cacheD}
  /\ journal' \in {journal, journalD}
  /\ configD' = config' /\ cacheD' = cache' /\ journalD' = journal'
  /\ lock' = Free /\ verdict' = "none" /\ resume' = "none"
  /\ pc' = [p \in Procs |-> IF pc[p] = "start" THEN "start" ELSE Idle(p)]
  /\ result' = [l \in Logins |-> IF pc[l] \in {"start", "done"} THEN result[l] ELSE "crashed"]
  /\ fresh' = [p \in Procs |-> 0]
  /\ UNCHANGED <<resolved, frozen, gen, issued, saved, kept, edits>>

EditConfig ==
  /\ edits < MaxEdits /\ edits' = edits + 1
  /\ \E t \in Targets, v \in Foreign \cup saved :
       /\ v # config[t]
       /\ config' = [config EXCEPT ![t] = v]
       /\ configD' = [configD EXCEPT ![t] = v]
  /\ UNCHANGED <<resolved, cache, cacheD, journal, journalD, lock, locals, issued, saved, kept, faults>>

Relink ==
  /\ edits < MaxEdits /\ edits' = edits + 1
  /\ \E path \in Paths, t \in Targets :
       /\ t # resolved[path]
       /\ resolved' = [resolved EXCEPT ![path] = t]
  /\ UNCHANGED <<config, configD, cache, cacheD, journal, journalD, lock, locals, issued, saved, kept, faults>>

-----------------------------------------------------------------------------
Init ==
  /\ resolved \in [Paths -> Targets]
  /\ config \in [Targets -> Foreign \cup OldGens] /\ configD = config
  /\ cache \in [gen : OldGens, token : {0}] \cup {NoEntry} /\ cacheD = cache
  /\ \A t \in Targets : config[t] \in OldGens => Owner(cache) = config[t]
  /\ journal = NoJournal /\ journalD = NoJournal
  /\ lock = Free
  /\ pc = [p \in Procs |-> IF p \in Logins THEN "start" ELSE "idle"]
  /\ frozen = [p \in Procs |-> Read(p)]
  /\ gen = [r \in Refreshers |-> NoGen]
  /\ fresh = [p \in Procs |-> 0]
  /\ result = [l \in Logins |-> "none"]
  /\ verdict = "none" /\ resume = "none"
  /\ issued = [g \in Gens |-> 0]
  /\ saved = OldGens
  /\ kept = [g \in Gens |-> 0]
  /\ faults = 0 /\ edits = 0

Recover(p) == Classify(p) \/ SyncConfig(p) \/ Settle(p) \/ Confirm(p) \/ Forget(p)
Configure(l) == \/ Freeze(l) \/ Authorize(l) \/ Compare(l)
                \/ CommitJournal(l) \/ CommitCache(l) \/ SaveConfig(l)
Refresh(r) == \/ Construct(r) \/ Built(r) \/ CheckSource(r)
              \/ RotateToken(r) \/ PersistToken(r)
              \/ VerifySource(r) \/ StoreCredential(r)
Locking(p) == AcquireLock(p) \/ LockTimeout(p)

Next ==
  \/ \E p \in Procs : Recover(p) \/ RecoveryFails(p) \/ Locking(p) \/ Crash(p)
  \/ \E l \in Logins : Configure(l)
  \/ \E r \in Refreshers : Refresh(r) \/ Quit(r)
  \/ PowerLoss \/ EditConfig \/ Relink

Spec == Init /\ [][Next]_vars

\* A running command keeps taking its own steps, and commands that use the
\* profile keep being started.  Faults, edits and quitting are not fair.
Fairness == /\ \A p \in Procs : WF_vars(Recover(p)) /\ WF_vars(Locking(p))
            /\ \A l \in Logins : WF_vars(Configure(l))
            /\ \A r \in Refreshers : WF_vars(Refresh(r))
FairSpec == Spec /\ Fairness
-----------------------------------------------------------------------------
Labels == {"start", "lock1", "login", "lock2", "compare", "journal", "cache", "save", "done",
           "idle", "built", "ready", "check", "rotate", "persist", "verify", "exchange",
           "classify", "syncConfig", "settle", "confirm", "forget"}
Locked == {"compare", "journal", "cache", "save", "check", "rotate", "persist", "verify", "exchange",
           "classify", "syncConfig", "settle", "confirm", "forget"}

Results == {"none", "ok", "changed", "failed", "uncertain", "crashed"}

FilesOK ==
  /\ resolved \in [Paths -> Targets]
  /\ config \in [Targets -> ConfigValues] /\ configD \in [Targets -> ConfigValues]
  /\ cache \in Entries \cup {NoEntry} /\ cacheD \in Entries \cup {NoEntry}
  /\ journal \in Journals \cup {NoJournal} /\ journalD \in Journals \cup {NoJournal}
ControlOK ==
  /\ lock \in Procs \cup {Free}
  /\ pc \in [Procs -> Labels]
  /\ result \in [Logins -> Results]
  /\ verdict \in {"none", "new", "old", "other", "moved"}
  /\ resume \in {"none", "login", "compare", "abort", "finish", "built", "check"}
LocalsOK ==
  /\ frozen \in [Procs -> [cfg : ConfigValues, target : Targets]]
  /\ gen \in [Refreshers -> Gens \cup {NoGen}]
  /\ fresh \in [Procs -> Nat]
CountersOK ==
  /\ issued \in [Gens -> Nat] /\ kept \in [Gens -> Nat]
  /\ saved \subseteq Gens
  /\ faults \in Nat /\ edits \in Nat
TypeOK == FilesOK /\ ControlOK /\ LocalsOK /\ CountersOK

\* What a power loss could leave of the cache and of the journal.
Caches == {cache, cacheD}
Pending == {journal, journalD} \ {NoJournal}

\* Exactly the command at a locked step holds the profile lock.
LockDiscipline == \A p \in Procs : pc[p] \in Locked <=> lock = p

\* The recovery never refuses: whichever journal and cache a crash or power
\* loss leaves, the cache entry is one of the two the journal can settle.
Recoverable == \A j \in Pending, c \in Caches :
                 Owner(c) \in {j.login, Owner(j.previous)}

\* Without outside edits, no login in a configuration is left without its
\* tokens, unless a login in another configuration file has them now, nor are
\* tokens left without their login, once the journal is gone: the files agree
\* in every state a power loss can leave.
Settled == NoJournal \in {journal, journalD} /\ edits = 0
ConfigHasTokens ==
  Settled => \A c \in Caches, t \in Targets :
    \A v \in {config[t], configD[t]} : v \in Gens =>
      \/ Owner(c) = v
      \/ \E u \in Targets \ {t} : Owner(c) \in Gens /\ config[u] = Owner(c) /\ configD[u] = config[u]
TokensHaveConfig ==
  Settled => \A c \in Caches : Owner(c) \in Logins =>
    LET t == resolved[PathOf[Owner(c)]] IN config[t] = Owner(c) /\ configD[t] = Owner(c)

\* Whatever edits interfere, the tokens of a login that never reached the
\* configuration are not left active.
AbandonedTokensWithdrawn ==
  NoJournal \in {journal, journalD} => \A c \in Caches : Owner(c) \in saved \cup {NoGen}

\* What every settled state owes its user (recoverNativeOAuthTransaction):
\* logins with their tokens and no others.
FilesAgree == ConfigHasTokens /\ TokensHaveConfig /\ AbandonedTokensWithdrawn

\* Refresh tokens are accepted once, so neither the cache nor a journal that
\* may be replayed ever falls back behind the newest token made durable.
NewestTokenKept ==
  /\ \A c \in Caches : c # NoEntry => c.token >= kept[c.gen]
  /\ \A j \in Pending : j.previous # NoEntry => j.previous.token >= kept[j.previous.gen]

\* A login reported as successful is in both files, durably, unless the
\* configuration was edited meanwhile.
SuccessIsDurable ==
  [][\A l \in Logins : result[l] # "ok" /\ result'[l] = "ok" =>
       /\ journal' = NoJournal /\ journalD' = NoJournal
       /\ edits = 0 => /\ Owner(cache') = l /\ cacheD' = cache'
                       /\ configD'[resolved[PathOf[l]]] = l]_vars

\* A pending journal is settled as long as commands use the profile.
PendingIsSettled ==
  \A r \in Refreshers : []<>(journal = NoJournal \/ ConfigAt(PathOf[r]) \notin Gens)

\* Every configure command comes to an end.
LoginsEnd == \A l \in Logins : (pc[l] # "start") ~> (pc[l] = "done")

\* Nobody waits for ever, neither for a login nor for what a killed one left
\* (acquireCredentialFileLockWithTimeout, installNativeOAuthTransactionNext).
LoginsSettle == PendingIsSettled /\ LoginsEnd
=============================================================================
