--------------------------- MODULE OpenAPICaller ---------------------------
(***************************************************************************)
(* One operation's calls to Alibaba Cloud (pkg/aliyun: caller.go,          *)
(* credentials.go, identity.go, ecs_credentials.go and the CloudSSO part   *)
(* of credential_profile_refresh.go): the key an operation leases, how it  *)
(* is renewed before later requests, the identity that must not change     *)
(* meanwhile, and the retries of a call.                                   *)
(*                                                                         *)
(* A source has one of these kinds:                                        *)
(*   "static"  a long-term key                                             *)
(*   "sts"     a fixed temporary key                                       *)
(*   "ecs", "uri", "external"  ECS metadata, a credentials URI or an       *)
(*             external command: read again when the key in memory is      *)
(*             about to expire                                             *)
(*   "role"    a RAM role assumed with a fixed temporary key, or with an   *)
(*             OIDC token; the SDK keeps and renews the session            *)
(*   "sso"     CloudSSO: a cache that processes share under a lock         *)
(* A key is known by whose it is and when it expires: keys that agree in   *)
(* both have the same fingerprint and differ in nothing that is checked.   *)
(***************************************************************************)
EXTENDS Integers, FiniteSets

CONSTANTS Commands,      \* processes, one operation each
          Accounts,      \* cloud accounts
          Users,         \* users or roles of an account
          Kinds,         \* the kinds of source
          NoKey, Nobody,
          MaxAttempts,   \* retryMaxAttempts
          MaxCalls,      \* bound: calls of an operation
          MaxTime,       \* bound: the clock
          MaxEdits,      \* bound: edits of the CloudSSO profile
          MaxKills       \* bound: processes killed

ASSUME CallerAssumption ==
  /\ MaxAttempts \in Nat \ {0} /\ MaxCalls \in Nat /\ MaxTime \in Nat
  /\ Nobody \notin Commands \cup Accounts
  /\ NoKey \notin [who : Accounts \X Users, expires : Nat]

VARIABLES kind,     \* the kind of source the profile selects
          clock,    \* time.Now
          profile,  \* the account the CloudSSO profile names (its generation)
          cache,    \* the CloudSSO cache entry
          lock,     \* who holds the profile's lock
          op,       \* what each operation is doing
          edits, kills

vars == <<kind, clock, profile, cache, lock, op, edits, kills>>
world == <<kind, clock, profile, edits, kills>>

Identities == Accounts \X Users
Account(who) == who[1]
Key(who, expires) == [who |-> who, expires |-> expires]
Never == 0             \* a key that does not expire
Always == MaxTime + 1  \* no deadline

\* credentialRefreshWindow, as one tick of the clock.
RefreshWindow == 1

snapshotExpired(key) == key.expires # Never /\ clock >= key.expires
\* A key in memory or in the cache that is used again.
Lasting(key) == key # NoKey /\ key.expires - clock > RefreshWindow

\* What a source hands out, never an expired key: an external command may
\* name no expiry, and its key is then never used again.
FreshKeys == {Key(who, t) : who \in Identities, t \in {clock + 1, clock + 2}}
LongTermKeys == {Key(who, Never) : who \in Identities}
acquireECSMetadataCredential == FreshKeys
CredentialsURIKeys == FreshKeys
ExternalCommandKeys == FreshKeys \cup LongTermKeys
ReadKeys == CASE kind = "ecs" -> acquireECSMetadataCredential
              [] kind = "uri" -> CredentialsURIKeys
              [] kind = "external" -> ExternalCommandKeys
Readers == {"ecs", "uri", "external"}

\* What a profile or the environment holds; with an OIDC token no key has to
\* last.
FixedKeys == {Key(who, t) : who \in Identities, t \in {1, 3}}
OIDCSources == {NoKey}

Idle == [at |-> "idle", for |-> "lease", next |-> NoKey, mem |-> NoKey, got |-> NoKey,
         source |-> NoKey, generation |-> Nobody, expected |-> Nobody, pinned |-> NoKey,
         deadline |-> Always, write |-> FALSE, attempt |-> 0, calls |-> 0,
         outcome |-> "none", signers |-> {}, effects |-> 0]

NoEntry == [generation |-> Nobody, key |-> NoKey]

Init ==
  /\ kind \in Kinds /\ clock = 0
  /\ profile \in Accounts /\ cache = NoEntry /\ lock = Nobody
  /\ op = [p \in Commands |-> Idle]
  /\ edits = 0 /\ kills = 0

-----------------------------------------------------------------------------
(* What becomes of an operation o.                                         *)

\* The process is gone; how it went is remembered for the properties.
Ended(o, outcome) ==
  [Idle EXCEPT !.at = "done", !.outcome = outcome, !.for = o.for, !.write = o.write,
               !.deadline = o.deadline, !.effects = o.effects]
ContextDone(o) == clock >= o.deadline

\* executeOpenAPIRequest: throttled requests were not carried out, and
\* queries may be carried out twice.
MutRetryable(o, failure) == failure \in {"throttled", "transient"} \* mutant: writes too
Retryable(o, failure) == failure = "throttled" \/ (failure = "transient" /\ ~o.write)

\* The attempts a call has.
MutLastAttempt(o) == FALSE \* mutant: while the service throttles
LastAttempt(o) == o.attempt = MaxAttempts

\* A failed attempt.  Only a service's own error is reported as retryable: a
\* credential's is not (CallRaw).
Failed(o, failure, report) ==
  IF ~Retryable(o, failure) THEN Ended(o, "error")
  ELSE IF LastAttempt(o)    THEN Ended(o, report)
  ELSE [o EXCEPT !.at = "backoff", !.outcome = report]

\* credentialAcquirerIsRenewable, and with it PinCredentialIdentity.
Renewable == kind \notin {"static", "sts"}

\* validateCredentialLifetime, for a key that cannot be renewed.
MutLastsLong(o, key) == ~snapshotExpired(key) \* mutant: the deadline is not looked at
LastsLong(o, key) ==
  /\ ~snapshotExpired(key)
  /\ key.expires # Never /\ o.deadline # Always => key.expires > o.deadline

\* operationIdentityGuard: the identity of a key, by its proof or by asking
\* GetCallerIdentity.
MutAccepts(o, key) == o.expected # Nobody => Account(key.who) = o.expected \* mutant: nothing is pinned
Accepts(o, key) == /\ o.expected # Nobody => Account(key.who) = o.expected
                   /\ o.pinned # NoKey => key.who = o.pinned.who

\* acquireCredentialLease, with the key acquired.
Leased(o, key) ==
  IF ~(IF Renewable THEN ~snapshotExpired(key) ELSE LastsLong(o, key)) THEN Ended(o, "leaseExpired")
  ELSE IF Renewable /\ ~Accepts(o, key) THEN Ended(o, "identityChanged")
  ELSE [o EXCEPT !.at = "ready", !.for = "sign", !.next = key,
                 !.pinned = IF Renewable THEN key ELSE NoKey]

\* operationCredential.GetCredential, with the key to sign with.
Signed(o, key) ==
  IF snapshotExpired(key) THEN Ended(o, "leaseExpired")
  ELSE IF Renewable /\ ~Accepts(o, key) THEN Ended(o, "identityChanged")
  ELSE [o EXCEPT !.at = "sent", !.signers = @ \cup {key.who}, !.got = NoKey,
                 !.pinned = IF Renewable THEN key ELSE NoKey]

Obtained(o, key) == IF o.for = "lease" THEN Leased(o, key) ELSE Signed(o, key)

\* A source, the cache or GetCallerIdentity failed, or the context is done.
Unobtained(o, failure) == IF o.for = "lease" THEN Ended(o, "error") ELSE Failed(o, failure, "error")

-----------------------------------------------------------------------------
(* The operation.                                                          *)

\* newCloudSSOProfileCredentialsProvider reads the cache without the lock.
Remembered == IF cache.generation = profile /\ ~snapshotExpired(cache.key) THEN cache.key ELSE NoKey

\* resolveOpenAPIProfile and PrepareOperationContext.  Several processes run
\* only where they share something; those have no deadline (a bound: what a
\* deadline does is seen with the other kinds).
Begin(p) ==
  /\ op[p].at = "idle"
  /\ kind # "sso" => \A q \in Commands : op[q].at = "idle"
  /\ \E deadline \in IF kind = "sso" THEN {Always} ELSE {Always, 2}, account \in Accounts,
        source \in CASE kind = "static" -> LongTermKeys
                     [] kind = "sts"    -> FixedKeys
                     [] kind = "role"   -> FixedKeys \cup OIDCSources
                     [] OTHER           -> {NoKey} :
       op' = [op EXCEPT ![p] =
         [Idle EXCEPT !.at = "acquire", !.deadline = deadline, !.source = source,
            !.generation = IF kind = "sso" THEN profile ELSE Nobody,
            !.expected = CASE kind = "sso"  -> profile
                           [] kind = "role" -> account
                           [] OTHER         -> Nobody,
            !.mem = IF kind = "sso" THEN Remembered ELSE NoKey]]
  /\ UNCHANGED <<world, cache, lock>>

Do(p, o) == op' = [op EXCEPT ![p] = o]

\* contextError, before anything is asked.
TimesOut(p) ==
  /\ op[p].at = "acquire" /\ ContextDone(op[p])
  /\ Do(p, Ended(op[p], "timeout"))
  /\ UNCHANGED <<world, cache, lock>>

AcquireFixed(p) ==
  /\ op[p].at = "acquire" /\ kind \in {"static", "sts"} /\ ~ContextDone(op[p])
  /\ Do(p, Obtained(op[p], op[p].source))
  /\ UNCHANGED <<world, cache, lock>>

\* The key in memory, or one that is read anew.
AcquireRead(p) ==
  /\ op[p].at = "acquire" /\ kind \in Readers /\ ~ContextDone(op[p])
  /\ \E key \in IF Lasting(op[p].mem) THEN {op[p].mem} ELSE ReadKeys :
       Do(p, Obtained([op[p] EXCEPT !.mem = key], key))
  /\ UNCHANGED <<world, cache, lock>>

\* The key the role is assumed with must last; the session's expiry is the
\* SDK's business.  A custom STS endpoint may hand out any identity.
AcquireRole(p) ==
  /\ op[p].at = "acquire" /\ kind = "role" /\ ~ContextDone(op[p])
  /\ \E who \in IF op[p].mem = NoKey THEN Identities ELSE Identities \cup {op[p].mem.who} :
       Do(p, IF op[p].source # NoKey /\ ~LastsLong(op[p], op[p].source) THEN Ended(op[p], "leaseExpired")
             ELSE Obtained([op[p] EXCEPT !.mem = Key(who, Never)], Key(who, Never)))
  /\ UNCHANGED <<world, cache, lock>>

\* A network request for a key or for an identity fails.
SourceFails(p) ==
  /\ \/ op[p].at = "acquire" /\ kind \in Readers \cup {"role"}
     \/ op[p].at = "fetch"
  /\ \E failure \in {"throttled", "transient", "other"} : Do(p, Unobtained(op[p], failure))
  /\ lock' = IF lock = p THEN Nobody ELSE lock
  /\ UNCHANGED <<world, cache>>

-----------------------------------------------------------------------------
(* CloudSSO.                                                               *)

\* cloudSSOProfileCredentialsProvider.Acquire, from memory or on to the lock.
AcquireSSO(p) ==
  /\ op[p].at = "acquire" /\ kind = "sso" /\ ~ContextDone(op[p])
  /\ IF Lasting(op[p].mem) THEN Do(p, Obtained(op[p], op[p].mem))
     ELSE Do(p, [op[p] EXCEPT !.at = "waitLock"])
  /\ UNCHANGED <<world, cache, lock>>

LockProfile(p) ==
  /\ op[p].at = "waitLock" /\ lock = Nobody /\ ~ContextDone(op[p])
  /\ Do(p, [op[p] EXCEPT !.at = "readCache"]) /\ lock' = p
  /\ UNCHANGED <<world, cache>>

\* credentialRefreshLockTimeout, or the context.
LockTimesOut(p) ==
  /\ op[p].at = "waitLock" /\ lock # Nobody
  /\ Do(p, Unobtained(op[p], "other"))
  /\ UNCHANGED <<world, cache, lock>>

\* The profile must be the one the operation started with; then another
\* process may have left a key.
MutUsable(o) == FALSE \* mutant: the cache is not read again under the lock
Usable(o) == cache.generation = o.generation /\ Lasting(cache.key)
ReadCache(p) ==
  /\ op[p].at = "readCache"
  /\ IF profile # op[p].generation
     THEN Do(p, Ended(op[p], "identityChanged")) /\ lock' = Nobody
     ELSE IF Usable(op[p])
     THEN Do(p, Obtained([op[p] EXCEPT !.mem = cache.key], cache.key)) /\ lock' = Nobody
     ELSE Do(p, [op[p] EXCEPT !.at = "fetch"]) /\ lock' = lock
  /\ UNCHANGED <<world, cache>>

\* fetch and verifiedSnapshot: a key of another account is refused.
MutVerified(o, key) == TRUE \* mutant: the account is not verified
Verified(o, key) == Account(key.who) = o.generation
Fetch(p) ==
  /\ op[p].at = "fetch"
  /\ \E key \in FreshKeys :
       IF Verified(op[p], key)
       THEN Do(p, [op[p] EXCEPT !.at = "recheck", !.got = key]) /\ lock' = lock
       ELSE Do(p, Ended(op[p], "error")) /\ lock' = Nobody
  /\ UNCHANGED <<world, cache>>

\* verifySourceGeneration.
Recheck(p) ==
  /\ op[p].at = "recheck"
  /\ IF profile # op[p].generation
     THEN Do(p, Ended(op[p], "identityChanged")) /\ lock' = Nobody
     ELSE Do(p, [op[p] EXCEPT !.at = "store"]) /\ lock' = lock
  /\ UNCHANGED <<world, cache>>

\* storeCredentialCacheEntry; a failure only costs the next process a fetch.
Store(p) ==
  /\ op[p].at = "store"
  /\ cache' \in {cache, [generation |-> op[p].generation, key |-> op[p].got]}
  /\ Do(p, Obtained([op[p] EXCEPT !.mem = op[p].got], op[p].got)) /\ lock' = Nobody
  /\ UNCHANGED world

-----------------------------------------------------------------------------
(* Calls.                                                                  *)

\* CallRaw: a query or a write.
StartCall(p) ==
  /\ op[p].at = "ready" /\ op[p].calls < MaxCalls
  /\ \E write \in BOOLEAN :
       Do(p, [op[p] EXCEPT !.at = "sign", !.write = write, !.attempt = 1, !.effects = 0,
                           !.calls = @ + 1, !.outcome = "none"])
  /\ UNCHANGED <<world, cache, lock>>

Finish(p) ==
  /\ op[p].at = "ready" /\ op[p].calls > 0
  /\ Do(p, Ended(op[p], "ok"))
  /\ UNCHANGED <<world, cache, lock>>

\* The SDK asks for a key just before it signs: the leased one first, while
\* it is valid, and then what the source has.
GetCredential(p) ==
  /\ op[p].at = "sign"
  /\ LET key == op[p].next
         rest == [op[p] EXCEPT !.next = NoKey]
     IN Do(p, IF key = NoKey \/ (snapshotExpired(key) /\ Renewable)
              THEN [rest EXCEPT !.at = "acquire"] ELSE Signed(rest, key))
  /\ UNCHANGED <<world, cache, lock>>

\* A query has no effect.
CarriedOut(o) == IF o.write THEN [o EXCEPT !.effects = @ + 1] ELSE o

\* What the service answers, and whether a lost answer was to a request that
\* was carried out.
Answer(p) ==
  /\ op[p].at = "sent"
  /\ \/ Do(p, [CarriedOut(op[p]) EXCEPT !.at = "ready"])
     \/ Do(p, Failed(op[p], "throttled", "retryable"))
     \/ \E o \in {op[p], CarriedOut(op[p])}, failure \in {"transient", "other"} :
          Do(p, Failed(o, failure, "retryable"))
  /\ UNCHANGED <<world, cache, lock>>

\* sleepWithContext: the next attempt, or the last error when the context
\* ends first.
Backoff(p) ==
  /\ op[p].at = "backoff"
  /\ Do(p, IF ContextDone(op[p]) THEN Ended(op[p], op[p].outcome)
           ELSE [op[p] EXCEPT !.at = "sign", !.attempt = @ + 1, !.outcome = "none"])
  /\ UNCHANGED <<world, cache, lock>>

-----------------------------------------------------------------------------
(* The world.                                                              *)

Tick ==
  /\ clock < MaxTime /\ clock' = clock + 1
  /\ UNCHANGED <<kind, profile, cache, lock, op, edits, kills>>

\* `aliyun configure` names another account.
EditProfile ==
  /\ kind = "sso" /\ edits < MaxEdits /\ edits' = edits + 1
  /\ profile' \in Accounts \ {profile}
  /\ UNCHANGED <<kind, clock, cache, lock, op, kills>>

\* The system releases a killed process's lock; nothing else is shared.
Kill(p) ==
  /\ kind = "sso" /\ op[p].at \notin {"idle", "done"} /\ kills < MaxKills /\ kills' = kills + 1
  /\ Do(p, Ended(op[p], "killed"))
  /\ lock' = IF lock = p THEN Nobody ELSE lock
  /\ UNCHANGED <<kind, clock, profile, cache, edits>>

Progress(p) ==
  \/ TimesOut(p) \/ AcquireFixed(p) \/ AcquireRead(p) \/ AcquireRole(p) \/ SourceFails(p)
  \/ AcquireSSO(p) \/ LockProfile(p) \/ LockTimesOut(p) \/ ReadCache(p) \/ Fetch(p) \/ Recheck(p) \/ Store(p)
  \/ StartCall(p) \/ Finish(p) \/ GetCredential(p) \/ Answer(p) \/ Backoff(p)

Next ==
  \/ \E p \in Commands : Begin(p) \/ Progress(p) \/ Kill(p)
  \/ Tick \/ EditProfile

Spec == Init /\ [][Next]_vars

-----------------------------------------------------------------------------
(* Properties.                                                             *)

Keys == [who : Identities, expires : 0..(MaxTime + 3)]
TypeOK ==
  /\ kind \in Kinds /\ clock \in 0..MaxTime /\ profile \in Accounts
  /\ cache \in [generation : Accounts \cup {Nobody}, key : Keys \cup {NoKey}]
  /\ lock \in Commands \cup {Nobody}
  /\ \A p \in Commands :
       /\ op[p].at \in {"idle", "acquire", "waitLock", "readCache", "fetch", "recheck", "store",
                        "ready", "sign", "sent", "backoff", "done"}
       /\ op[p].outcome \in {"none", "ok", "error", "retryable", "leaseExpired", "identityChanged",
                             "timeout", "killed"}
       /\ op[p].attempt \in 0..MaxAttempts /\ op[p].calls \in 0..MaxCalls

\* All requests of an operation are signed by one identity, and by one of the
\* account that the role's ARN or the CloudSSO profile names, whatever the
\* source hands out when it is asked again (operationIdentityGuard).
OneIdentity ==
  \A p \in Commands :
    /\ Cardinality(op[p].signers) <= 1
    /\ op[p].expected # Nobody => \A who \in op[p].signers : Account(who) = op[p].expected

\* However often a call is repeated inside executeOpenAPIRequest, a write is
\* carried out at most once, and an error that calls itself retryable is of
\* a write that was not.
WrittenOnce ==
  \A p \in Commands : op[p].write =>
    /\ op[p].effects <= 1
    /\ op[p].outcome = "retryable" => op[p].effects = 0

\* A key that cannot be renewed is leased only if it lasts until the
\* operation's deadline: no operation fails halfway because it expires
\* (validateCredentialLifetime).
LeaseLasts ==
  \A p \in Commands :
    /\ kind \in {"sts", "role"}
    /\ op[p].outcome = "leaseExpired" /\ op[p].for = "sign" /\ op[p].deadline # Always
    => clock >= op[p].deadline

\* Processes share the CloudSSO key they fetch: one that comes second finds it
\* under the lock, and the entry's key is of the account the entry is for.
SharedKey ==
  /\ cache.key # NoKey => Account(cache.key.who) = cache.generation
  /\ \A p \in Commands : op[p].at = "fetch" =>
       ~(cache.generation = op[p].generation /\ Lasting(cache.key))

\* The requests of an operation are signed by one identity with keys that last
\* for it, and processes share those they fetch (operationIdentityGuard,
\* validateCredentialLifetime).
Signing == TypeOK /\ OneIdentity /\ LeaseLasts /\ SharedKey
=============================================================================
