---------------------------- MODULE UpdateCheck ----------------------------
(***************************************************************************)
(* The automatic version check every command makes (pkg/updater/cache.go   *)
(* AutoCheck, pkg/cli/root.go maybeCheckForUpdate): a cache file under a   *)
(* lock that nobody waits for, a day between two successful checks, an     *)
(* hour after a failed one, and a mark below which the latest release      *)
(* never goes.                                                             *)
(*                                                                         *)
(* Resolving the latest release is ReleaseClient's; here it answers what   *)
(* the mirror serves at that moment, or fails.  Releases are numbered in   *)
(* their order; all are stable, prereleases are never the latest.          *)
(* Names differ from ReleaseClient's: UpdaterProofs is about both.         *)
(***************************************************************************)
EXTENDS Integers

CONSTANTS Checkers,         \* commands running on the machine
          LastRelease,      \* bound: releases 1..LastRelease
          autoCheckInterval, failureBackoff,
          MaxClock,         \* bound: the clock
          MaxSteps          \* bound: the clock or the mirror set back, the cache lost

ASSUME IntervalAssumption == /\ autoCheckInterval \in Nat \ {0}
                             /\ failureBackoff \in 1..autoCheckInterval
ASSUME BoundsAssumption == /\ LastRelease \in Nat \ {0}
                           /\ MaxClock \in Nat /\ MaxSteps \in Nat

VARIABLES clock,    \* time.Now, which the user may set back
          newest,   \* the newest release published
          served,   \* the release the mirror and GitHub call the latest
          current,  \* the version of the executable
          cache,    \* the cache file
          lock,     \* who holds the lock, or Nobody
          checks,   \* what each command's check is doing
          steps,    \* times set back, caches lost
          checked   \* ghost: when the latest release was last resolved and
                    \* recorded, since the last step

checkVars == <<clock, newest, served, current, cache, lock, checks, steps, checked>>

Nobody == "nobody"
ASSUME NobodyAssumption == Nobody \notin Checkers
Never == -1
NoRelease == 0
NoCache == [checked |-> Never, failed |-> Never, verified |-> NoRelease]
NotChecking == [at |-> "idle", now |-> 0, state |-> NoCache, notice |-> NoRelease]

CheckInit ==
  /\ clock = 0 /\ newest = 1 /\ served = 1 /\ current = 1
  /\ cache = NoCache /\ lock = Nobody /\ steps = 0 /\ checked = Never
  /\ checks = [p \in Checkers |-> NotChecking]

-----------------------------------------------------------------------------
(* The check.                                                              *)

\* Not in the future, and no longer ago than that.
MutWithin(time, now, span) == FALSE \* mutant: every check asks the network
Within(time, now, span) == time # Never /\ now - time \in 0..(span - 1)

\* cachedAutoCheckResult.
Fresh(state, now) == Within(state.checked, now, autoCheckInterval) /\ state.verified # NoRelease

\* compareAutoCheck and the notice of maybeCheckForUpdate.
Notice(latest) == IF latest > current THEN latest ELSE NoRelease

Done(p, notice) == checks' = [checks EXCEPT ![p].at = "done", ![p].notice = notice]

\* AutoCheck reads the clock before it asks for the lock.
StartCheck(p) ==
  /\ checks[p].at \in {"idle", "done"}
  /\ checks' = [checks EXCEPT ![p] = [NotChecking EXCEPT !.at = "lock", !.now = clock]]
  /\ UNCHANGED <<clock, newest, served, current, cache, lock, steps, checked>>

\* acquireCacheLock: while another command checks, this one goes without.
MutBusy(p) == FALSE \* mutant: a check waits for the lock
Busy(p) == lock # Nobody
LockBusy(p) ==
  /\ checks[p].at = "lock" /\ Busy(p)
  /\ Done(p, NoRelease)
  /\ UNCHANGED <<clock, newest, served, current, cache, lock, steps, checked>>

\* readCache, and what it settles: the answer, a recent failure, or nothing.
Lock(p) ==
  /\ checks[p].at = "lock" /\ lock = Nobody
  /\ IF Fresh(cache, checks[p].now) THEN Done(p, Notice(cache.verified)) /\ lock' = lock
     ELSE IF Within(cache.failed, checks[p].now, failureBackoff)
       THEN Done(p, NoRelease) /\ lock' = lock
     ELSE /\ checks' = [checks EXCEPT ![p].at = "resolve", ![p].state = cache]
          /\ lock' = p
  /\ UNCHANGED <<clock, newest, served, current, cache, steps, checked>>

\* ResolveLatestVersion fails: the failure is recorded, the mark is kept.
MutFailedState(p) == [checks[p].state EXCEPT !.failed = checks[p].now + failureBackoff] \* mutant: the end is noted
FailedState(p) == [checks[p].state EXCEPT !.failed = checks[p].now]
ResolveFails(p) ==
  /\ checks[p].at = "resolve"
  /\ checks' = [checks EXCEPT ![p].at = "write", ![p].state = FailedState(p)]
  /\ UNCHANGED <<clock, newest, served, current, cache, lock, steps, checked>>

\* It answers; an answer below the mark counts as a failure.
MutRolledBack(latest, state) == FALSE \* mutant: the mark is not compared
RolledBack(latest, state) == latest < state.verified
ResolveLatest(p) ==
  /\ checks[p].at = "resolve"
  /\ checks' = [checks EXCEPT ![p].at = "write",
       ![p].state  = IF RolledBack(served, checks[p].state) THEN FailedState(p)
                     ELSE [checked |-> checks[p].now, failed |-> Never, verified |-> served],
       ![p].notice = IF RolledBack(served, checks[p].state) THEN NoRelease ELSE Notice(served)]
  /\ UNCHANGED <<clock, newest, served, current, cache, lock, steps, checked>>

\* writeCache renames a complete file into place, or fails and the command
\* shows nothing; the lock is released either way.
MutUnlock(p) == lock \* mutant: a failed write keeps the lock
Unlock(p) == Nobody
WriteCache(p) ==
  /\ checks[p].at = "write"
  /\ cache' = checks[p].state
  /\ checked' = IF checks[p].state.failed = Never THEN checks[p].now ELSE checked
  /\ Done(p, checks[p].notice) /\ lock' = Nobody
  /\ UNCHANGED <<clock, newest, served, current, steps>>
WriteFails(p) ==
  /\ checks[p].at = "write"
  /\ Done(p, NoRelease) /\ lock' = Unlock(p)
  /\ UNCHANGED <<clock, newest, served, current, cache, steps, checked>>

\* The command is killed: the system releases its lock.
KillCheck(p) ==
  /\ checks[p].at \notin {"idle", "done"}
  /\ checks' = [checks EXCEPT ![p] = NotChecking]
  /\ lock' = IF lock = p THEN Nobody ELSE lock
  /\ UNCHANGED <<clock, newest, served, current, cache, steps, checked>>

-----------------------------------------------------------------------------
(* The world.                                                              *)

Tick ==
  /\ clock < MaxClock /\ clock' = clock + 1
  /\ UNCHANGED <<newest, served, current, cache, lock, checks, steps, checked>>

SetClockBack ==
  /\ steps < MaxSteps /\ clock > 0
  /\ clock' = clock - 1 /\ steps' = steps + 1 /\ checked' = Never
  /\ UNCHANGED <<newest, served, current, cache, lock, checks>>

LoseCache ==
  /\ steps < MaxSteps /\ cache # NoCache
  /\ cache' = NoCache /\ steps' = steps + 1 /\ checked' = Never
  /\ UNCHANGED <<clock, newest, served, current, lock, checks>>

Release ==
  /\ newest < LastRelease /\ newest' = newest + 1 /\ served' = newest'
  /\ UNCHANGED <<clock, current, cache, lock, checks, steps, checked>>

\* The mirror serves an older pointer.
ServeOlder ==
  /\ steps < MaxSteps /\ served > 1
  /\ served' = served - 1 /\ steps' = steps + 1
  /\ UNCHANGED <<clock, newest, current, cache, lock, checks, checked>>

\* `ecctl update` installs what the check has announced.
Install ==
  /\ \E p \in Checkers : checks[p].at = "done" /\ checks[p].notice > current /\ current' = checks[p].notice
  /\ UNCHANGED <<clock, newest, served, cache, lock, checks, steps, checked>>

CheckNext ==
  \/ \E p \in Checkers :
       \/ StartCheck(p) \/ LockBusy(p) \/ Lock(p) \/ ResolveFails(p) \/ ResolveLatest(p)
       \/ WriteCache(p) \/ WriteFails(p) \/ KillCheck(p)
  \/ Tick \/ SetClockBack \/ LoseCache \/ Release \/ ServeOlder \/ Install

\* A check that has started goes on: nothing in it waits, and its requests have
\* three seconds.
Progress(p) ==
  LockBusy(p) \/ Lock(p) \/ ResolveFails(p) \/ ResolveLatest(p) \/ WriteCache(p) \/ WriteFails(p)
CheckSpec == CheckInit /\ [][CheckNext]_checkVars /\ \A p \in Checkers : WF_checkVars(Progress(p))

-----------------------------------------------------------------------------
(* Properties.                                                             *)

CheckTypeOK ==
  /\ clock \in 0..MaxClock /\ {newest, served, current} \subseteq 1..LastRelease
  /\ cache \in [checked : {Never} \cup 0..MaxClock, failed : {Never} \cup 0..MaxClock,
                verified : 0..LastRelease]
  /\ lock \in Checkers \cup {Nobody} /\ checked \in {Never} \cup 0..MaxClock
  /\ \A p \in Checkers : checks[p].at \in {"idle", "lock", "resolve", "write", "done"}

\* The mark only rises: two commands, a failure, a kill or an older pointer do
\* not take it back; only a cache that is lost starts anew.
HighWaterMark == [][cache'.verified < cache.verified => cache' = NoCache]_checkVars

\* Whoever is between reading the cache and writing it holds the lock, and
\* nobody else does: no entry is lost, no failed write locks the others out.
LockOwner == \A p \in Checkers : lock = p <=> checks[p].at \in {"resolve", "write"}

\* The cache keeps what was verified (AutoCheck, acquireCacheLock, writeCache).
CacheIsKept == []CheckTypeOK /\ []LockOwner /\ HighWaterMark

\* Going to ask the network, and a successful check less than a day ago.
Asks(p) == checks[p].at = "lock" /\ checks'[p].at = "resolve"
JustChecked == checked # Never /\ clock - checked \in 0..(autoCheckInterval - 1)

\* While a successful check is less than a day old nobody asks the network
\* again, unless the command had read the clock before that check was made, or
\* before the clock was set back.
ResolvesRarely ==
  [][\A p \in Checkers :
       Asks(p) /\ JustChecked =>
         checks[p].now < checked \/ checks[p].now > clock]_checkVars

\* "Successful checks are cached for 24 hours" (website/docs/user-guide/
\* updates.md).  It does not hold of commands that check at the same time.
CachedForADay ==
  [][\A p \in Checkers : Asks(p) => ~JustChecked]_checkVars

\* Every check comes to an end: it never waits for the one of another command.
ChecksEnd == \A p \in Checkers : checks[p].at # "idle" ~> checks[p].at \in {"idle", "done"}
=============================================================================
