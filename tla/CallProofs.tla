----------------------------- MODULE CallProofs -----------------------------
(***************************************************************************)
(* What holds of every call.  Of OpenAPICaller, for any number of          *)
(* processes, accounts, users, calls and attempts: what an operation may   *)
(* do is decided by what it has in memory; so the invariant is one of each *)
(* operation by itself (Sound), and of the lock and the CloudSSO cache     *)
(* that they share.  Of Choices, for lists of any length: what a command   *)
(* that reads their pages shows while others change them, what it shows of *)
(* the items it found, where its credential comes from, and which changes  *)
(* of an API's metadata are compatible.                                    *)
(***************************************************************************)
EXTENDS OpenAPICaller, Choices, FiniteSetTheorems, SequenceTheorems, WellFoundedInduction, TLAPS

Waiting == {"waitLock", "readCache", "fetch", "recheck", "store"}
Holding == {"readCache", "fetch", "recheck", "store"}
Calling == {"ready", "sign", "sent", "backoff"}
Outcomes == {"none", "ok", "error", "retryable", "leaseExpired", "identityChanged", "timeout", "killed"}

\* What an operation remembers.
Ops == [at : {"idle", "acquire", "done"} \cup Waiting \cup Calling, for : {"lease", "sign"},
        next : Keys \cup {NoKey}, mem : Keys \cup {NoKey}, got : Keys \cup {NoKey},
        source : Keys \cup {NoKey}, generation : Accounts \cup {Nobody},
        expected : Accounts \cup {Nobody}, pinned : Keys \cup {NoKey}, deadline : {2, Always},
        write : BOOLEAN, attempt : 0..MaxAttempts, calls : 0..MaxCalls, outcome : Outcomes,
        signers : SUBSET Identities, effects : Nat]

\* Nothing is signed before there is a lease, and the CloudSSO steps are
\* taken with that kind only.
Phase(o) ==
  /\ o.at \in Calling => o.for = "sign"
  /\ o.for = "lease" => o.signers = {}
  /\ o.at \in Waiting => kind = "sso"
  /\ o.at = "backoff" => o.attempt < MaxAttempts
  /\ o.outcome # "none" => o.at \in {"backoff", "done"}
  /\ o.at = "backoff" => o.outcome \in {"error", "retryable"}

\* A key that can be renewed is pinned when it signs, and the next one is
\* compared with it; the others are the one that the source holds.
Pinned(o) ==
  /\ Renewable => o.signers = {} \/ /\ o.pinned # NoKey /\ o.signers = {o.pinned.who}
                                    /\ o.expected # Nobody => Account(o.pinned.who) = o.expected
  /\ ~Renewable => /\ o.expected = Nobody /\ (\A who \in o.signers : who = o.source.who)
                   /\ o.next \in {NoKey, o.source}
                   /\ o.at \notin {"idle", "done"} => o.source # NoKey

\* A leased key that cannot be renewed, or the one a role is assumed with,
\* outlives the operation; the role's session expires at nobody's notice.
Outlives(o) ==
  /\ kind \in {"sts", "role"} /\ o.for = "sign" /\ o.at # "done" /\ o.source # NoKey
       /\ o.source.expires # Never /\ o.deadline # Always => o.source.expires > o.deadline
  /\ kind = "role" /\ o.next # NoKey => o.next.expires = Never
  /\ kind \in {"sts", "role"} /\ o.outcome = "leaseExpired" /\ o.for = "sign"
       /\ o.deadline # Always => clock >= o.deadline

\* Until the answer a write has had no effect, and an error after one is not
\* called retryable.
Effects(o) ==
  o.write => /\ o.at \notin {"ready", "done"} => o.effects = 0
             /\ o.effects <= 1 /\ (o.outcome = "retryable" => o.effects = 0)

\* What is fetched under the lock is of the account it is fetched for.
Fetched(o) == o.at \in {"recheck", "store"} => o.got # NoKey /\ Account(o.got.who) = o.generation

Sound(o) == Phase(o) /\ Pinned(o) /\ Outlives(o) /\ Effects(o) /\ Fetched(o)

World ==
  /\ kind \in Kinds /\ clock \in 0..MaxTime /\ profile \in Accounts
  /\ cache \in [generation : Accounts \cup {Nobody}, key : Keys \cup {NoKey}]
  /\ lock \in Commands \cup {Nobody}

Operations == op \in [Commands -> Ops] /\ \A p \in Commands : Sound(op[p])

\* The lock is held by whoever is in its steps.
Locking == \A p \in Commands : lock = p <=> op[p].at \in Holding

IInv == World /\ Operations /\ Locking /\ SharedKey

-----------------------------------------------------------------------------
(* What becomes of an operation by itself.                                 *)

LEMMA KeysAreKeys ==
  /\ NoKey \notin Keys
  /\ \A k \in Keys : k.who \in Identities /\ k.expires \in 0..(MaxTime + 3) /\ k.expires \in Nat
  /\ \A w \in Identities, t \in 0..(MaxTime + 3) :
       Key(w, t) \in Keys /\ Key(w, t).who = w /\ Key(w, t).expires = t
<1>1. Keys \subseteq [who : Accounts \X Users, expires : Nat]
  BY CallerAssumption DEF Keys, Identities
<1> QED BY <1>1, CallerAssumption DEF Keys, Key, Identities

LEMMA IdleOp == Idle \in Ops /\ Sound(Idle)
<1>1. Idle \in Ops
  BY CallerAssumption DEF Idle, Ops, Waiting, Calling, Outcomes, Always
<1>2. Sound(Idle)
  BY DEF Idle, Sound, Phase, Pinned, Outlives, Effects, Fetched, Waiting, Calling
<1> QED BY <1>1, <1>2

LEMMA EndedOp ==
  ASSUME NEW o \in Ops, NEW how \in Outcomes \ {"none"},
         o.write => o.effects <= 1 /\ (how = "retryable" => o.effects = 0),
         kind \in {"sts", "role"} /\ how = "leaseExpired" /\ o.for = "sign" /\ o.deadline # Always
           => clock >= o.deadline
  PROVE  LET e == Ended(o, how)
         IN  e \in Ops /\ Sound(e) /\ e.at = "done"
<1> DEFINE e == Ended(o, how)
<1>1. /\ e.at = "done" /\ e.outcome = how /\ e.for = o.for /\ e.write = o.write
      /\ e.deadline = o.deadline /\ e.effects = o.effects
      /\ e.next = NoKey /\ e.source = NoKey /\ e.expected = Nobody /\ e.pinned = NoKey
      /\ e.signers = {}
  BY DEF Ended, Idle
<1>2. e \in Ops
  <2> DEFINE i == [Idle EXCEPT !.at = "done", !.outcome = how, !.for = o.for]
  <2>1. i \in Ops
    BY IdleOp, ZenonT(60) DEF Ops
  <2>2. e = [i EXCEPT !.write = o.write, !.deadline = o.deadline, !.effects = o.effects]
    BY DEF Ended
  <2>3. o.write \in BOOLEAN /\ o.deadline \in {2, Always} /\ o.effects \in Nat
    BY DEF Ops
  <2> HIDE DEF i, e
  <2>4. \A w \in BOOLEAN, d \in {2, Always}, n \in Nat :
          [i EXCEPT !.write = w, !.deadline = d, !.effects = n] \in Ops
    BY <2>1 DEF Ops
  <2> QED BY <2>2, <2>3, <2>4
<1>3. Sound(e)
  BY <1>1 DEF Sound, Phase, Pinned, Outlives, Effects, Fetched, Waiting, Calling
<1> QED BY <1>1, <1>2, <1>3

\* A failed attempt ends the call, or is repeated when it had no effect.
LEMMA FailedOp ==
  ASSUME NEW o \in Ops, NEW failure, NEW report \in {"error", "retryable"},
         o.for = "sign", o.at \notin {"idle", "done"}, Pinned(o), Outlives(o),
         o.write => o.effects <= 1 /\ (o.effects = 0 \/ ~Retryable(o, failure))
  PROVE  LET f == Failed(o, failure, report)
         IN  f \in Ops /\ Sound(f) /\ f.at \in {"backoff", "done"}
<1>1. CASE ~Retryable(o, failure)
  BY <1>1, EndedOp DEF Failed, Outcomes
<1>2. CASE Retryable(o, failure) /\ LastAttempt(o)
  BY <1>2, EndedOp DEF Failed, Outcomes
<1>3. CASE Retryable(o, failure) /\ ~LastAttempt(o)
  <2> DEFINE b == [o EXCEPT !.at = "backoff", !.outcome = report]
  <2>1. Failed(o, failure, report) = b
    BY <1>3 DEF Failed
  <2>2. b \in Ops
    <3>1. \A r \in Outcomes : [o EXCEPT !.at = "backoff", !.outcome = r] \in Ops
      BY DEF Ops, Calling
    <3> QED BY <3>1 DEF Outcomes
  <2>3. /\ b.at = "backoff" /\ b.outcome = report /\ b.for = o.for /\ b.attempt = o.attempt
        /\ b.signers = o.signers /\ b.pinned = o.pinned /\ b.expected = o.expected
        /\ b.source = o.source /\ b.next = o.next /\ b.deadline = o.deadline /\ b.write = o.write
        /\ b.effects = o.effects /\ o.attempt \in 0..MaxAttempts
    BY DEF Ops
  <2> HIDE DEF b
  <2>4. Phase(b)
    BY <1>3, <2>3, CallerAssumption DEF Phase, Calling, Waiting, LastAttempt
  <2>5. Pinned(b) /\ Outlives(b)
    BY <2>3 DEF Pinned, Outlives
  <2>6. Effects(b) /\ Fetched(b)
    BY <1>3, <2>3 DEF Effects, Fetched
  <2> QED BY <2>1, <2>2, <2>3, <2>4, <2>5, <2>6 DEF Sound
<1> QED BY <1>1, <1>2, <1>3

\* A request is signed by the identity that was pinned, or with the one key
\* there is, and only while that lasts.
LEMMA SignedOp ==
  ASSUME NEW o \in Ops, NEW key \in Keys, clock \in Nat,
         o.for = "sign", o.at \notin {"idle", "done"}, o.outcome = "none",
         Pinned(o), Outlives(o), o.write => o.effects = 0,
         ~Renewable => key = o.source, kind = "role" => key.expires = Never
  PROVE  LET s == Signed(o, key)
         IN  s \in Ops /\ Sound(s) /\ s.at \in {"sent", "done"}
<1>1. CASE snapshotExpired(key)
  <2>1. kind \in {"sts", "role"} /\ o.deadline # Always => clock >= o.deadline
    BY <1>1, KeysAreKeys, CallerAssumption
       DEF snapshotExpired, Outlives, Renewable, Ops, Always, Never
  <2>2. Signed(o, key) = Ended(o, "leaseExpired")
    BY <1>1 DEF Signed
  <2>3. "leaseExpired" \in Outcomes \ {"none"}
    BY DEF Outcomes
  <2> QED BY <2>1, <2>2, <2>3, EndedOp
<1>2. CASE ~snapshotExpired(key) /\ Renewable /\ ~Accepts(o, key)
  <2>1. Signed(o, key) = Ended(o, "identityChanged")
    BY <1>2 DEF Signed
  <2> QED BY <2>1, EndedOp DEF Outcomes
<1>3. CASE ~snapshotExpired(key) /\ (Renewable => Accepts(o, key))
  <2> DEFINE pin == IF Renewable THEN key ELSE NoKey
             b == [o EXCEPT !.at = "sent", !.signers = @ \cup {key.who}, !.got = NoKey, !.pinned = pin]
  <2>1. Signed(o, key) = b
    BY <1>3 DEF Signed
  <2>2. b \in Ops
    <3>1. \A w \in SUBSET Identities, k \in Keys \cup {NoKey} :
            [o EXCEPT !.at = "sent", !.signers = w, !.got = NoKey, !.pinned = k] \in Ops
      BY DEF Ops, Calling
    <3>2. o.signers \cup {key.who} \in SUBSET Identities /\ pin \in Keys \cup {NoKey}
      BY KeysAreKeys DEF Ops
    <3>3. b = [o EXCEPT !.at = "sent", !.signers = o.signers \cup {key.who}, !.got = NoKey, !.pinned = pin]
      BY DEF Ops
    <3> QED BY <3>1, <3>2, <3>3
  <2>3. /\ b.at = "sent" /\ b.outcome = "none" /\ b.for = "sign" /\ b.pinned = pin
        /\ b.signers = o.signers \cup {key.who} /\ b.expected = o.expected
        /\ b.source = o.source /\ b.next = o.next /\ b.deadline = o.deadline /\ b.write = o.write
        /\ b.effects = o.effects
    BY DEF Ops
  <2> HIDE DEF b
  <2>4. Phase(b) /\ Effects(b) /\ Fetched(b)
    BY <2>3 DEF Phase, Effects, Fetched, Calling, Waiting
  <2>5. Outlives(b)
    BY <2>3 DEF Outlives
  <2>6. Pinned(b)
    <3>1. CASE Renewable
      <4>1. o.signers = {} \/ o.signers = {key.who}
        BY <1>3, <3>1 DEF Pinned, Accepts
      <4>2. b.signers = {key.who} /\ b.pinned = key
        BY <2>3, <3>1, <4>1
      <4> QED BY <1>3, <2>3, <3>1, <4>2, KeysAreKeys DEF Pinned, Accepts
    <3>2. CASE ~Renewable
      BY <2>3, <3>2 DEF Pinned
    <3> QED BY <3>1, <3>2
  <2> QED BY <2>1, <2>2, <2>3, <2>4, <2>5, <2>6 DEF Sound
<1> QED BY <1>1, <1>2, <1>3

\* The operation starts with a lease, on a key that lasts for it.
LEMMA LeasedOp ==
  ASSUME NEW o \in Ops, NEW key \in Keys, clock \in Nat,
         o.for = "lease", o.at \notin {"idle", "done"}, o.outcome = "none", o.signers = {},
         Pinned(o), o.write => o.effects = 0,
         ~Renewable => key = o.source,
         kind = "role" => key.expires = Never /\ (o.source = NoKey \/ LastsLong(o, o.source))
  PROVE  LET l == Leased(o, key)
         IN  l \in Ops /\ Sound(l) /\ l.at \in {"ready", "done"}
<1>1. CASE ~(IF Renewable THEN ~snapshotExpired(key) ELSE LastsLong(o, key))
  <2>1. Leased(o, key) = Ended(o, "leaseExpired")
    BY <1>1 DEF Leased
  <2> QED BY <2>1, EndedOp DEF Outcomes
<1>2. CASE (IF Renewable THEN ~snapshotExpired(key) ELSE LastsLong(o, key)) /\ Renewable /\ ~Accepts(o, key)
  <2>1. Leased(o, key) = Ended(o, "identityChanged")
    BY <1>2 DEF Leased
  <2> QED BY <2>1, EndedOp DEF Outcomes
<1>3. CASE (IF Renewable THEN ~snapshotExpired(key) ELSE LastsLong(o, key)) /\ (Renewable => Accepts(o, key))
  <2> DEFINE pin == IF Renewable THEN key ELSE NoKey
             b == [o EXCEPT !.at = "ready", !.for = "sign", !.next = key, !.pinned = pin]
  <2>1. Leased(o, key) = b
    BY <1>3 DEF Leased
  <2>2. b \in Ops
    <3>1. \A k \in Keys \cup {NoKey} :
            [o EXCEPT !.at = "ready", !.for = "sign", !.next = key, !.pinned = k] \in Ops
      BY DEF Ops, Calling
    <3>2. pin \in Keys \cup {NoKey}
      OBVIOUS
    <3> QED BY <3>1, <3>2
  <2>3. /\ b.at = "ready" /\ b.outcome = "none" /\ b.for = "sign" /\ b.pinned = pin /\ b.next = key
        /\ b.signers = {} /\ b.expected = o.expected /\ b.source = o.source
        /\ b.deadline = o.deadline /\ b.write = o.write /\ b.effects = o.effects
    BY DEF Ops
  <2> HIDE DEF b
  <2>4. Phase(b) /\ Effects(b) /\ Fetched(b)
    BY <2>3 DEF Phase, Effects, Fetched, Calling, Waiting
  <2>5. Outlives(b)
    BY <1>3, <2>3 DEF Outlives, LastsLong, Renewable
  <2>6. Pinned(b)
    BY <2>3 DEF Pinned
  <2> QED BY <2>1, <2>2, <2>3, <2>4, <2>5, <2>6 DEF Sound
<1> QED BY <1>1, <1>2, <1>3

LEMMA ObtainedOp ==
  ASSUME NEW o \in Ops, Sound(o), NEW key \in Keys, clock \in Nat,
         o.at \in {"acquire", "readCache", "store"},
         ~Renewable => key = o.source,
         kind = "role" => key.expires = Never /\ (o.source = NoKey \/ LastsLong(o, o.source))
  PROVE  LET r == Obtained(o, key)
         IN  r \in Ops /\ Sound(r) /\ r.at \in {"ready", "sent", "done"}
<1>1. o.outcome = "none" /\ (o.write => o.effects = 0) /\ (o.for = "lease" => o.signers = {})
  BY DEF Sound, Phase, Effects, Ops
<1>2. CASE o.for = "lease"
  BY <1>1, <1>2, LeasedOp DEF Obtained, Sound
<1>3. CASE o.for = "sign"
  BY <1>1, <1>3, SignedOp DEF Obtained, Sound
<1> QED BY <1>2, <1>3 DEF Ops

LEMMA UnobtainedOp ==
  ASSUME NEW o \in Ops, Sound(o), NEW failure, o.at \in {"acquire"} \cup Waiting
  PROVE  LET r == Unobtained(o, failure)
         IN  r \in Ops /\ Sound(r) /\ r.at \in {"backoff", "done"}
<1>1. o.outcome = "none" /\ (o.write => o.effects = 0)
  BY DEF Sound, Phase, Effects, Ops, Waiting
<1>2. CASE o.for = "lease"
  BY <1>1, <1>2, EndedOp DEF Unobtained, Outcomes
<1>3. CASE o.for = "sign"
  BY <1>1, <1>3, FailedOp DEF Unobtained, Sound, Waiting
<1> QED BY <1>2, <1>3 DEF Ops

\* Keeping a key in memory changes nothing that is asked of an operation.
LEMMA KeptOp ==
  ASSUME NEW o \in Ops, Sound(o), NEW key \in Keys \cup {NoKey}
  PROVE  LET m == [o EXCEPT !.mem = key]
         IN  /\ m \in Ops /\ Sound(m) /\ m.at = o.at /\ m.source = o.source
             /\ m.deadline = o.deadline
<1> DEFINE m == [o EXCEPT !.mem = key]
<1>1. m \in Ops
  BY DEF Ops
<1>2. /\ m.at = o.at /\ m.outcome = o.outcome /\ m.for = o.for /\ m.attempt = o.attempt
      /\ m.signers = o.signers /\ m.pinned = o.pinned /\ m.expected = o.expected
      /\ m.source = o.source /\ m.next = o.next /\ m.deadline = o.deadline /\ m.write = o.write
      /\ m.effects = o.effects /\ m.got = o.got /\ m.generation = o.generation
  BY DEF Ops
<1> HIDE DEF m
<1>3. Sound(m)
  BY <1>2 DEF Sound, Phase, Pinned, Outlives, Effects, Fetched
<1> QED BY <1>1, <1>2, <1>3 DEF m

\* On the way to a key nothing else changes.
LEMMA MovedOp ==
  ASSUME NEW o \in Ops, Sound(o), o.at \in {"acquire", "sign"} \cup Waiting,
         NEW a \in {"acquire"} \cup Waiting, a \in Waiting => kind = "sso",
         a = "store" => o.at = "recheck", a # "recheck"
  PROVE  LET m == [o EXCEPT !.at = a]
         IN  m \in Ops /\ Sound(m) /\ m.at = a /\ m.generation = o.generation
<1> DEFINE m == [o EXCEPT !.at = a]
<1>1. m \in Ops
  BY DEF Ops
<1>2. /\ m.at = a /\ m.outcome = o.outcome /\ m.for = o.for
      /\ m.signers = o.signers /\ m.pinned = o.pinned /\ m.expected = o.expected
      /\ m.source = o.source /\ m.next = o.next /\ m.deadline = o.deadline /\ m.write = o.write
      /\ m.effects = o.effects /\ m.got = o.got /\ m.generation = o.generation
  BY DEF Ops
<1> HIDE DEF m
<1>3. Sound(m)
  BY <1>2 DEF Sound, Phase, Pinned, Outlives, Effects, Fetched, Waiting, Calling
<1> QED BY <1>1, <1>2, <1>3 DEF m

-----------------------------------------------------------------------------
(* Steps: what one operation does to what all of them share.               *)

\* An operation takes a step of its own and keeps the books of the lock.
LEMMA OneMoves ==
  ASSUME IInv, NEW p \in Commands, NEW x \in Ops, Sound(x), op' = [op EXCEPT ![p] = x],
         UNCHANGED <<kind, clock, profile>>,
         cache' \in [generation : Accounts \cup {Nobody}, key : Keys \cup {NoKey}],
         \/ lock' = lock /\ (x.at \in Holding <=> op[p].at \in Holding)
         \/ lock \in {p, Nobody} /\ lock' \in {p, Nobody} /\ (lock' = p <=> x.at \in Holding),
         SharedKey'
  PROVE  IInv'
<1>1. op' \in [Commands -> Ops] /\ op'[p] = x /\ \A q \in Commands \ {p} : op'[q] = op[q]
  BY DEF IInv, Operations
<1>2. \A q \in Commands : Sound(op[q])'
  <2> TAKE q \in Commands
  <2>1. CASE q = p
    BY <1>1, <2>1 DEF Sound, Phase, Pinned, Outlives, Effects, Fetched, Renewable
  <2>2. CASE q # p
    BY <1>1, <2>2 DEF IInv, Operations, Sound, Phase, Pinned, Outlives, Effects, Fetched, Renewable
  <2> QED BY <2>1, <2>2
<1>3. Operations'
  BY <1>1, <1>2 DEF Operations
<1>4. World'
  BY DEF IInv, World
<1>5. Locking'
  BY <1>1, CallerAssumption DEF IInv, World, Locking
<1> QED BY <1>3, <1>4, <1>5 DEF IInv

\* A step outside of the lock.
LEMMA Private ==
  ASSUME IInv, NEW p \in Commands, NEW x \in Ops, Sound(x), op' = [op EXCEPT ![p] = x],
         UNCHANGED <<kind, clock, profile, cache, lock>>, op[p].at \notin Holding, x.at \notin Holding
  PROVE  IInv'
<1>1. op'[p] = x /\ \A q \in Commands \ {p} : op'[q] = op[q]
  BY DEF IInv, Operations
<1>2. SharedKey'
  BY <1>1 DEF IInv, SharedKey, Lasting, Holding
<1> QED BY <1>2, OneMoves DEF IInv, World

\* A step of the holder, or one to become it.
LEMMA UnderLock ==
  ASSUME IInv, NEW p \in Commands, NEW x \in Ops, Sound(x), op' = [op EXCEPT ![p] = x],
         UNCHANGED <<kind, clock, profile, cache>>, lock \in {p, Nobody}, lock' \in {p, Nobody},
         lock' = p <=> x.at \in Holding,
         x.at = "fetch" => ~(cache.generation = x.generation /\ Lasting(cache.key))
  PROVE  IInv'
<1>1. op'[p] = x /\ \A q \in Commands \ {p} : op'[q] = op[q]
  BY DEF IInv, Operations
<1>2. SharedKey'
  BY <1>1 DEF IInv, SharedKey, Lasting
<1> QED BY <1>2, OneMoves DEF IInv, World

LEMMA OwnState ==
  ASSUME IInv, NEW p \in Commands
  PROVE  /\ op[p] \in Ops /\ Sound(op[p]) /\ clock \in Nat
         /\ op[p].at \in Waiting => kind = "sso"
         /\ lock = p <=> op[p].at \in Holding
         /\ kind = "sso" => Renewable
         /\ op[p].at \in {"waitLock", "acquire"} => op[p].at \notin Holding
BY CallerAssumption DEF IInv, World, Operations, Locking, Sound, Phase, Renewable, Holding

LEMMA FreshAreKeys == ASSUME clock \in 0..MaxTime PROVE FreshKeys \subseteq Keys /\ LongTermKeys \subseteq Keys /\ FixedKeys \subseteq Keys
BY KeysAreKeys, CallerAssumption DEF FreshKeys, LongTermKeys, FixedKeys, Never

LEMMA BeginStep == ASSUME IInv, NEW p \in Commands, Begin(p) PROVE IInv'
<1>1. PICK deadline \in IF kind = "sso" THEN {Always} ELSE {Always, 2}, account \in Accounts,
           source \in CASE kind = "static" -> LongTermKeys
                        [] kind = "sts"    -> FixedKeys
                        [] kind = "role"   -> FixedKeys \cup OIDCSources
                        [] OTHER           -> {NoKey} :
        op' = [op EXCEPT ![p] =
          [Idle EXCEPT !.at = "acquire", !.deadline = deadline, !.source = source,
             !.generation = IF kind = "sso" THEN profile ELSE Nobody,
             !.expected = CASE kind = "sso"  -> profile
                            [] kind = "role" -> account
                            [] OTHER         -> Nobody,
             !.mem = IF kind = "sso" THEN Remembered ELSE NoKey]]
  BY DEF Begin
<1>2. /\ deadline \in {2, Always} /\ source \in Keys \cup {NoKey}
      /\ ~Renewable => source # NoKey
  BY <1>1, FreshAreKeys, KeysAreKeys DEF Renewable, IInv, World, OIDCSources
<1> DEFINE g == IF kind = "sso" THEN profile ELSE Nobody
           e == CASE kind = "sso" -> profile [] kind = "role" -> account [] OTHER -> Nobody
           m == IF kind = "sso" THEN Remembered ELSE NoKey
           x == [Idle EXCEPT !.at = "acquire", !.deadline = deadline, !.source = source,
                   !.generation = g, !.expected = e, !.mem = m]
<1>3. /\ g \in Accounts \cup {Nobody} /\ e \in Accounts \cup {Nobody} /\ m \in Keys \cup {NoKey}
      /\ ~Renewable => e = Nobody
  BY DEF IInv, World, Remembered, Renewable
<1> HIDE DEF g, e, m
<1>4. x \in Ops
  <2> DEFINE i == [Idle EXCEPT !.at = "acquire", !.deadline = deadline, !.source = source]
  <2>1. i \in Ops
    BY <1>2, IdleOp, ZenonT(60) DEF Ops
  <2>2. x = [i EXCEPT !.generation = g, !.expected = e, !.mem = m]
    OBVIOUS
  <2> HIDE DEF i
  <2>3. \A a, b \in Accounts \cup {Nobody}, k \in Keys \cup {NoKey} :
          [i EXCEPT !.generation = a, !.expected = b, !.mem = k] \in Ops
    BY <2>1 DEF Ops
  <2> QED BY <1>3, <2>2, <2>3
<1>5. /\ x.at = "acquire" /\ x.for = "lease" /\ x.signers = {} /\ x.outcome = "none"
      /\ x.next = NoKey /\ x.expected = e /\ x.source = source /\ x.effects = 0 /\ x.write = FALSE
  BY DEF Idle
<1>6. op' = [op EXCEPT ![p] = x]
  BY <1>1 DEF g, e, m
<1> HIDE DEF x
<1>7. Sound(x)
  BY <1>2, <1>3, <1>5 DEF Sound, Phase, Pinned, Outlives, Effects, Fetched, Calling, Waiting, Renewable
<1> QED BY <1>4, <1>5, <1>6, <1>7, Private DEF Begin, world, Holding

LEMMA TimesOutStep == ASSUME IInv, NEW p \in Commands, TimesOut(p) PROVE IInv'
<1> DEFINE x == Ended(op[p], "timeout")
<1>1. x \in Ops /\ Sound(x) /\ x.at = "done"
  BY OwnState, EndedOp DEF Outcomes, Sound, Effects, TimesOut
<1> QED BY <1>1, Private DEF TimesOut, Do, world, Holding

LEMMA AcquireFixedStep == ASSUME IInv, NEW p \in Commands, AcquireFixed(p) PROVE IInv'
<1> DEFINE x == Obtained(op[p], op[p].source)
<1>1. /\ op[p] \in Ops /\ Sound(op[p]) /\ clock \in Nat
      /\ op[p].source \in Keys /\ op[p].at = "acquire" /\ kind # "role"
  BY OwnState DEF AcquireFixed, Sound, Pinned, Renewable, Ops
<1>2. x \in Ops /\ Sound(x) /\ x.at \in {"ready", "sent", "done"}
  BY <1>1, ObtainedOp
<1> QED BY <1>2, Private DEF AcquireFixed, Do, world, Holding

LEMMA AcquireReadStep == ASSUME IInv, NEW p \in Commands, AcquireRead(p) PROVE IInv'
<1>1. PICK key \in Keys : op' = [op EXCEPT ![p] = Obtained([op[p] EXCEPT !.mem = key], key)]
  <2>1. Lasting(op[p].mem) => op[p].mem \in Keys
    BY OwnState DEF Lasting, Ops
  <2>2. ReadKeys \subseteq Keys
    BY FreshAreKeys DEF AcquireRead, Readers, ReadKeys, acquireECSMetadataCredential,
         CredentialsURIKeys, ExternalCommandKeys, IInv, World
  <2> QED BY <2>1, <2>2 DEF AcquireRead, Do
<1> DEFINE o == [op[p] EXCEPT !.mem = key]
           x == Obtained(o, key)
<1>2. o \in Ops /\ Sound(o) /\ o.at = "acquire" /\ Renewable /\ kind # "role" /\ clock \in Nat
  BY OwnState, KeptOp DEF AcquireRead, Readers, Renewable
<1> HIDE DEF o
<1>3. x \in Ops /\ Sound(x) /\ x.at \in {"ready", "sent", "done"}
  BY <1>2, ObtainedOp
<1>4. op' = [op EXCEPT ![p] = x]
  BY <1>1 DEF o
<1> QED BY <1>3, <1>4, Private DEF AcquireRead, world, Holding

LEMMA AcquireRoleStep == ASSUME IInv, NEW p \in Commands, AcquireRole(p) PROVE IInv'
<1>1. /\ op[p] \in Ops /\ Sound(op[p]) /\ clock \in Nat /\ op[p].at = "acquire"
      /\ op[p].at \notin Holding /\ kind = "role" /\ Renewable
      /\ op[p].write => op[p].effects = 0
  BY OwnState DEF AcquireRole, Sound, Effects, Renewable
<1>2. PICK who \in IF op[p].mem = NoKey THEN Identities ELSE Identities \cup {op[p].mem.who} :
        op' = [op EXCEPT ![p] =
          IF op[p].source # NoKey /\ ~LastsLong(op[p], op[p].source) THEN Ended(op[p], "leaseExpired")
          ELSE Obtained([op[p] EXCEPT !.mem = Key(who, Never)], Key(who, Never))]
  BY DEF AcquireRole, Do
<1>3. who \in Identities
  BY <1>1, KeysAreKeys DEF Ops
<1>4. CASE op[p].source # NoKey /\ ~LastsLong(op[p], op[p].source)
  <2> DEFINE x == Ended(op[p], "leaseExpired")
  <2>1. op' = [op EXCEPT ![p] = x]
    BY <1>2, <1>4
  <2>2. op[p].for = "sign" /\ op[p].deadline # Always => clock >= op[p].deadline
    BY <1>1, <1>4, KeysAreKeys, CallerAssumption
       DEF LastsLong, snapshotExpired, Sound, Outlives, Ops, Always, Never
  <2>3. x \in Ops /\ Sound(x) /\ x.at = "done"
    BY <1>1, <2>2, EndedOp DEF Outcomes
  <2> QED BY <1>1, <2>1, <2>3, Private DEF AcquireRole, world, Holding
<1>5. CASE op[p].source = NoKey \/ LastsLong(op[p], op[p].source)
  <2> DEFINE key == Key(who, Never)
             o == [op[p] EXCEPT !.mem = key]
             x == Obtained(o, key)
  <2>1. key \in Keys /\ key.expires = Never
    BY <1>3, KeysAreKeys, CallerAssumption DEF Never
  <2>2. op' = [op EXCEPT ![p] = x]
    BY <1>2, <1>5
  <2> HIDE DEF key
  <2>3. o \in Ops /\ Sound(o) /\ o.at = "acquire" /\ o.source = op[p].source /\ o.deadline = op[p].deadline
    BY <1>1, <2>1, KeptOp
  <2> HIDE DEF o
  <2>4. x \in Ops /\ Sound(x) /\ x.at \in {"ready", "sent", "done"}
    BY <1>1, <1>5, <2>1, <2>3, ObtainedOp DEF LastsLong
  <2> HIDE DEF x
  <2> QED BY <1>1, <2>2, <2>4, Private DEF AcquireRole, world, Holding
<1> QED BY <1>4, <1>5

LEMMA SourceFailsStep == ASSUME IInv, NEW p \in Commands, SourceFails(p) PROVE IInv'
<1>1. PICK failure \in {"throttled", "transient", "other"} :
        op' = [op EXCEPT ![p] = Unobtained(op[p], failure)]
  BY DEF SourceFails, Do
<1> DEFINE x == Unobtained(op[p], failure)
<1>2. op[p] \in Ops /\ Sound(op[p]) /\ op[p].at \in {"acquire", "fetch"}
      /\ (lock = p <=> op[p].at \in Holding)
  BY OwnState DEF SourceFails
<1>3. x \in Ops /\ Sound(x) /\ x.at \in {"backoff", "done"}
  BY <1>2, UnobtainedOp DEF Waiting
<1> HIDE DEF x
<1>4. op' = [op EXCEPT ![p] = x]
  BY <1>1 DEF x
<1>5. CASE op[p].at = "acquire"
  BY <1>2, <1>3, <1>4, <1>5, Private DEF SourceFails, world, Holding
<1>6. CASE op[p].at = "fetch"
  BY <1>2, <1>3, <1>4, <1>6, UnderLock, CallerAssumption DEF SourceFails, world, Holding
<1> QED BY <1>2, <1>5, <1>6

-----------------------------------------------------------------------------
LEMMA AcquireSSOStep == ASSUME IInv, NEW p \in Commands, AcquireSSO(p) PROVE IInv'
<1>1. /\ op[p] \in Ops /\ Sound(op[p]) /\ op[p].at = "acquire" /\ kind = "sso" /\ Renewable
      /\ clock \in Nat /\ kind # "role"
  BY OwnState DEF AcquireSSO
<1>2. CASE Lasting(op[p].mem)
  <2> DEFINE x == Obtained(op[p], op[p].mem)
  <2>1. op[p].mem \in Keys
    BY <1>1, <1>2 DEF Lasting, Ops
  <2>2. x \in Ops /\ Sound(x) /\ x.at \in {"ready", "sent", "done"}
    BY <1>1, <2>1, ObtainedOp
  <2>3. op' = [op EXCEPT ![p] = x]
    BY <1>2 DEF AcquireSSO, Do
  <2> HIDE DEF x
  <2> QED BY <1>1, <2>2, <2>3, Private DEF AcquireSSO, world, Holding
<1>3. CASE ~Lasting(op[p].mem)
  <2> DEFINE x == [op[p] EXCEPT !.at = "waitLock"]
  <2>1. x \in Ops /\ Sound(x) /\ x.at = "waitLock"
    BY <1>1, MovedOp DEF Waiting
  <2>2. op' = [op EXCEPT ![p] = x]
    BY <1>3 DEF AcquireSSO, Do
  <2> HIDE DEF x
  <2> QED BY <1>1, <2>1, <2>2, Private DEF AcquireSSO, world, Holding
<1> QED BY <1>2, <1>3

LEMMA LockProfileStep == ASSUME IInv, NEW p \in Commands, LockProfile(p) PROVE IInv'
<1> DEFINE x == [op[p] EXCEPT !.at = "readCache"]
<1>1. x \in Ops /\ Sound(x) /\ x.at = "readCache"
  BY OwnState, MovedOp DEF LockProfile, Waiting
<1>2. op' = [op EXCEPT ![p] = x]
  BY DEF LockProfile, Do
<1> HIDE DEF x
<1> QED BY <1>1, <1>2, UnderLock DEF LockProfile, world, Holding

LEMMA LockTimesOutStep == ASSUME IInv, NEW p \in Commands, LockTimesOut(p) PROVE IInv'
<1> DEFINE x == Unobtained(op[p], "other")
<1>1. x \in Ops /\ Sound(x) /\ x.at \in {"backoff", "done"}
  BY OwnState, UnobtainedOp DEF LockTimesOut, Waiting
<1> HIDE DEF x
<1>2. op' = [op EXCEPT ![p] = x]
  BY DEF LockTimesOut, Do, x
<1> QED BY <1>1, <1>2, Private DEF LockTimesOut, world, Holding

\* Whoever goes on to fetch has found nothing to use under the lock.
LEMMA ReadCacheStep == ASSUME IInv, NEW p \in Commands, ReadCache(p) PROVE IInv'
<1>1. /\ op[p] \in Ops /\ Sound(op[p]) /\ op[p].at = "readCache" /\ kind = "sso" /\ Renewable
      /\ clock \in Nat /\ kind # "role" /\ lock = p
  BY OwnState DEF ReadCache, Waiting, Holding
<1>2. CASE profile # op[p].generation
  <2> DEFINE x == Ended(op[p], "identityChanged")
  <2>1. x \in Ops /\ Sound(x) /\ x.at = "done"
    BY <1>1, EndedOp DEF Outcomes, Sound, Effects
  <2>2. op' = [op EXCEPT ![p] = x] /\ lock' = Nobody
    BY <1>2 DEF ReadCache, Do
  <2> HIDE DEF x
  <2> QED BY <1>1, <2>1, <2>2, UnderLock, CallerAssumption DEF ReadCache, world, Holding
<1>3. CASE profile = op[p].generation /\ Usable(op[p])
  <2> DEFINE o == [op[p] EXCEPT !.mem = cache.key]
             x == Obtained(o, cache.key)
  <2>1. cache.key \in Keys
    BY <1>3 DEF Usable, Lasting, IInv, World
  <2>2. o \in Ops /\ Sound(o) /\ o.at = "readCache"
    BY <1>1, <2>1, KeptOp
  <2>3. op' = [op EXCEPT ![p] = x] /\ lock' = Nobody
    BY <1>3 DEF ReadCache, Do
  <2> HIDE DEF o
  <2>4. x \in Ops /\ Sound(x) /\ x.at \in {"ready", "sent", "done"}
    BY <1>1, <2>1, <2>2, ObtainedOp
  <2> HIDE DEF x
  <2> QED BY <1>1, <2>3, <2>4, UnderLock, CallerAssumption DEF ReadCache, world, Holding
<1>4. CASE profile = op[p].generation /\ ~Usable(op[p])
  <2> DEFINE x == [op[p] EXCEPT !.at = "fetch"]
  <2>1. x \in Ops /\ Sound(x) /\ x.at = "fetch" /\ x.generation = op[p].generation
    BY <1>1, MovedOp DEF Waiting
  <2>2. op' = [op EXCEPT ![p] = x] /\ lock' = lock
    BY <1>4 DEF ReadCache, Do
  <2> HIDE DEF x
  <2> QED BY <1>1, <1>4, <2>1, <2>2, UnderLock DEF ReadCache, world, Holding, Usable
<1> QED BY <1>2, <1>3, <1>4

LEMMA FetchStep == ASSUME IInv, NEW p \in Commands, Fetch(p) PROVE IInv'
<1>1. PICK key \in FreshKeys :
        IF Verified(op[p], key)
        THEN Do(p, [op[p] EXCEPT !.at = "recheck", !.got = key]) /\ lock' = lock
        ELSE Do(p, Ended(op[p], "error")) /\ lock' = Nobody
  BY DEF Fetch
<1>2. /\ op[p] \in Ops /\ Sound(op[p]) /\ op[p].at = "fetch" /\ kind = "sso" /\ lock = p
      /\ key \in Keys /\ NoKey \notin Keys
  BY OwnState, FreshAreKeys, KeysAreKeys DEF Fetch, Waiting, Holding, IInv, World
<1>3. CASE Verified(op[p], key)
  <2> DEFINE x == [op[p] EXCEPT !.at = "recheck", !.got = key]
  <2>1. x \in Ops
    BY <1>2 DEF Ops, Waiting
  <2>2. /\ x.at = "recheck" /\ x.got = key /\ x.outcome = op[p].outcome /\ x.for = op[p].for
        /\ x.signers = op[p].signers /\ x.pinned = op[p].pinned /\ x.expected = op[p].expected
        /\ x.source = op[p].source /\ x.next = op[p].next /\ x.deadline = op[p].deadline
        /\ x.write = op[p].write /\ x.effects = op[p].effects /\ x.generation = op[p].generation
    BY <1>2 DEF Ops
  <2>3. op' = [op EXCEPT ![p] = x] /\ lock' = lock
    BY <1>1, <1>3 DEF Do
  <2> HIDE DEF x
  <2>4. Sound(x)
    BY <1>2, <1>3, <2>2 DEF Sound, Phase, Pinned, Outlives, Effects, Fetched, Calling, Waiting, Verified
  <2> QED BY <1>2, <2>1, <2>2, <2>3, <2>4, UnderLock DEF Fetch, world, Holding
<1>4. CASE ~Verified(op[p], key)
  <2> DEFINE x == Ended(op[p], "error")
  <2>1. x \in Ops /\ Sound(x) /\ x.at = "done"
    BY <1>2, EndedOp DEF Outcomes, Sound, Effects
  <2>2. op' = [op EXCEPT ![p] = x] /\ lock' = Nobody
    BY <1>1, <1>4 DEF Do
  <2> HIDE DEF x
  <2> QED BY <1>2, <2>1, <2>2, UnderLock, CallerAssumption DEF Fetch, world, Holding
<1> QED BY <1>3, <1>4

LEMMA RecheckStep == ASSUME IInv, NEW p \in Commands, Recheck(p) PROVE IInv'
<1>1. op[p] \in Ops /\ Sound(op[p]) /\ op[p].at = "recheck" /\ kind = "sso" /\ lock = p
  BY OwnState DEF Recheck, Waiting, Holding
<1>2. CASE profile # op[p].generation
  <2> DEFINE x == Ended(op[p], "identityChanged")
  <2>1. x \in Ops /\ Sound(x) /\ x.at = "done"
    BY <1>1, EndedOp DEF Outcomes, Sound, Effects
  <2>2. op' = [op EXCEPT ![p] = x] /\ lock' = Nobody
    BY <1>2 DEF Recheck, Do
  <2> HIDE DEF x
  <2> QED BY <1>1, <2>1, <2>2, UnderLock, CallerAssumption DEF Recheck, world, Holding
<1>3. CASE profile = op[p].generation
  <2> DEFINE x == [op[p] EXCEPT !.at = "store"]
  <2>1. x \in Ops /\ Sound(x) /\ x.at = "store"
    BY <1>1, MovedOp DEF Waiting
  <2>2. op' = [op EXCEPT ![p] = x] /\ lock' = lock
    BY <1>3 DEF Recheck, Do
  <2> HIDE DEF x
  <2> QED BY <1>1, <2>1, <2>2, UnderLock DEF Recheck, world, Holding
<1> QED BY <1>2, <1>3

\* The only write of the cache, of a key that was verified, under the lock.
LEMMA StoreStep == ASSUME IInv, NEW p \in Commands, Store(p) PROVE IInv'
<1> DEFINE o == [op[p] EXCEPT !.mem = op[p].got]
           x == Obtained(o, op[p].got)
<1>1. /\ op[p] \in Ops /\ Sound(op[p]) /\ op[p].at = "store" /\ kind = "sso" /\ Renewable
      /\ clock \in Nat /\ kind # "role" /\ lock = p
      /\ op[p].got \in Keys /\ Account(op[p].got.who) = op[p].generation
  BY OwnState DEF Store, Waiting, Holding, Sound, Fetched, Ops
<1>2. o \in Ops /\ Sound(o) /\ o.at = "store"
  BY <1>1, KeptOp
<1>3. op' = [op EXCEPT ![p] = x] /\ lock' = Nobody
  BY DEF Store, Do
<1> HIDE DEF o
<1>4. x \in Ops /\ Sound(x) /\ x.at \in {"ready", "sent", "done"}
  BY <1>1, <1>2, ObtainedOp
<1> HIDE DEF x
<1>5. /\ cache' \in [generation : Accounts \cup {Nobody}, key : Keys \cup {NoKey}]
      /\ cache'.key # NoKey => Account(cache'.key.who) = cache'.generation
  BY <1>1 DEF Store, IInv, World, SharedKey, Ops
<1>6. \A q \in Commands : op'[q].at # "fetch"
  BY <1>1, <1>3, <1>4 DEF IInv, Operations, Locking, Holding
<1>7. SharedKey'
  BY <1>5, <1>6 DEF SharedKey
<1> QED BY <1>1, <1>3, <1>4, <1>5, <1>7, OneMoves, CallerAssumption DEF Store, world, Holding

-----------------------------------------------------------------------------
LEMMA StartCallStep == ASSUME IInv, NEW p \in Commands, StartCall(p) PROVE IInv'
<1>1. PICK write \in BOOLEAN :
        op' = [op EXCEPT ![p] =
          [op[p] EXCEPT !.at = "sign", !.write = write, !.attempt = 1, !.effects = 0,
                        !.calls = @ + 1, !.outcome = "none"]]
  BY DEF StartCall, Do
<1> DEFINE x == [op[p] EXCEPT !.at = "sign", !.write = write, !.attempt = 1, !.effects = 0,
                              !.calls = @ + 1, !.outcome = "none"]
<1>2. op[p] \in Ops /\ Sound(op[p]) /\ op[p].at = "ready" /\ op[p].calls < MaxCalls
  BY OwnState DEF StartCall
<1>3. x \in Ops
  <2> DEFINE i == [op[p] EXCEPT !.at = "sign", !.write = write, !.attempt = 1]
  <2>1. i \in Ops
    <3>1. \A w \in BOOLEAN, n \in 0..MaxAttempts :
            [op[p] EXCEPT !.at = "sign", !.write = w, !.attempt = n] \in Ops
      BY <1>2 DEF Ops, Calling
    <3>2. 1 \in 0..MaxAttempts
      BY CallerAssumption
    <3> QED BY <1>1, <3>1, <3>2
  <2>2. i.calls = op[p].calls /\ op[p].calls + 1 \in 0..MaxCalls
    BY <1>2, CallerAssumption DEF Ops
  <2>3. x = [i EXCEPT !.effects = 0, !.calls = i.calls + 1, !.outcome = "none"]
    BY <1>2 DEF Ops
  <2> HIDE DEF i
  <2>4. \A n \in 0..MaxCalls : [i EXCEPT !.effects = 0, !.calls = n, !.outcome = "none"] \in Ops
    BY <2>1 DEF Ops, Outcomes
  <2> QED BY <2>2, <2>3, <2>4
<1>4. /\ x.at = "sign" /\ x.outcome = "none" /\ x.for = op[p].for
      /\ x.signers = op[p].signers /\ x.pinned = op[p].pinned /\ x.expected = op[p].expected
      /\ x.source = op[p].source /\ x.next = op[p].next /\ x.deadline = op[p].deadline
      /\ x.effects = 0
  BY <1>2 DEF Ops
<1>5. op' = [op EXCEPT ![p] = x]
  BY <1>1
<1> HIDE DEF x
<1>6. Sound(x)
  BY <1>2, <1>4 DEF Sound, Phase, Pinned, Outlives, Effects, Fetched, Calling, Waiting
<1> QED BY <1>2, <1>3, <1>4, <1>5, <1>6, Private DEF StartCall, world, Holding

LEMMA FinishStep == ASSUME IInv, NEW p \in Commands, Finish(p) PROVE IInv'
<1> DEFINE x == Ended(op[p], "ok")
<1>1. x \in Ops /\ Sound(x) /\ x.at = "done"
  BY OwnState, EndedOp DEF Outcomes, Sound, Effects
<1>2. op' = [op EXCEPT ![p] = x]
  BY DEF Finish, Do
<1> HIDE DEF x
<1> QED BY <1>1, <1>2, Private DEF Finish, world, Holding

\* The leased key signs the first request; after it the source is asked.
LEMMA GetCredentialStep == ASSUME IInv, NEW p \in Commands, GetCredential(p) PROVE IInv'
<1> DEFINE key == op[p].next
           rest == [op[p] EXCEPT !.next = NoKey]
<1>1. /\ op[p] \in Ops /\ Sound(op[p]) /\ op[p].at = "sign" /\ clock \in Nat
  BY OwnState DEF GetCredential
<1>2. rest \in Ops /\ rest.at = "sign"
  BY <1>1 DEF Ops
<1>3. /\ rest.outcome = op[p].outcome /\ rest.for = op[p].for
      /\ rest.signers = op[p].signers /\ rest.pinned = op[p].pinned /\ rest.expected = op[p].expected
      /\ rest.source = op[p].source /\ rest.next = NoKey /\ rest.deadline = op[p].deadline
      /\ rest.write = op[p].write /\ rest.effects = op[p].effects
  BY <1>1 DEF Ops
<1>4. op' = [op EXCEPT ![p] = IF key = NoKey \/ (snapshotExpired(key) /\ Renewable)
                              THEN [rest EXCEPT !.at = "acquire"] ELSE Signed(rest, key)]
  BY DEF GetCredential, Do
<1> HIDE DEF rest
<1>5. Sound(rest)
  BY <1>1, <1>2, <1>3 DEF Sound, Phase, Pinned, Outlives, Effects, Fetched, Calling, Waiting
<1>6. CASE key = NoKey \/ (snapshotExpired(key) /\ Renewable)
  <2> DEFINE x == [rest EXCEPT !.at = "acquire"]
  <2>1. x \in Ops /\ Sound(x) /\ x.at = "acquire"
    BY <1>2, <1>5, MovedOp DEF Waiting
  <2>2. op' = [op EXCEPT ![p] = x]
    BY <1>4, <1>6
  <2> HIDE DEF x
  <2> QED BY <1>1, <2>1, <2>2, Private DEF GetCredential, world, Holding
<1>7. CASE key # NoKey /\ ~(snapshotExpired(key) /\ Renewable)
  <2> DEFINE x == Signed(rest, key)
  <2>1. /\ key \in Keys /\ (~Renewable => key = rest.source)
        /\ kind = "role" => key.expires = Never
        /\ rest.for = "sign" /\ rest.outcome = "none" /\ (rest.write => rest.effects = 0)
    BY <1>1, <1>2, <1>3, <1>7 DEF Sound, Phase, Pinned, Outlives, Effects, Calling, Ops
  <2>2. x \in Ops /\ Sound(x) /\ x.at \in {"sent", "done"}
    BY <1>1, <1>2, <1>5, <2>1, SignedOp DEF Sound
  <2>3. op' = [op EXCEPT ![p] = x]
    BY <1>4, <1>7
  <2> HIDE DEF x
  <2> QED BY <1>1, <2>2, <2>3, Private DEF GetCredential, world, Holding
<1> QED BY <1>6, <1>7

\* A request that was carried out and whose answer is lost is repeated only
\* when it was a query.
LEMMA AnswerStep == ASSUME IInv, NEW p \in Commands, Answer(p) PROVE IInv'
<1> DEFINE done == CarriedOut(op[p])
<1>1. /\ op[p] \in Ops /\ Sound(op[p]) /\ op[p].at = "sent" /\ op[p].for = "sign"
      /\ op[p].outcome = "none" /\ (op[p].write => op[p].effects = 0)
  BY OwnState DEF Answer, Sound, Phase, Effects, Calling
<1>2. done \in Ops
  BY <1>1 DEF CarriedOut, Ops
<1>3. /\ done.at = "sent" /\ done.outcome = "none" /\ done.for = "sign" /\ done.attempt = op[p].attempt
      /\ done.signers = op[p].signers /\ done.pinned = op[p].pinned /\ done.expected = op[p].expected
      /\ done.source = op[p].source /\ done.next = op[p].next /\ done.deadline = op[p].deadline
      /\ done.write = op[p].write /\ (done.write => done.effects = 1)
  BY <1>1 DEF CarriedOut, Ops
<1>4. /\ UNCHANGED <<kind, clock, profile, cache, lock>> /\ op[p].at \notin Holding
      /\ \/ op' = [op EXCEPT ![p] = [done EXCEPT !.at = "ready"]]
         \/ op' = [op EXCEPT ![p] = Failed(op[p], "throttled", "retryable")]
         \/ \E o \in {op[p], done}, failure \in {"transient", "other"} :
              op' = [op EXCEPT ![p] = Failed(o, failure, "retryable")]
  BY <1>1 DEF Answer, Do, world, Holding
<1> HIDE DEF done
<1>5. Pinned(done) /\ Outlives(done)
  BY <1>1, <1>3 DEF Sound, Pinned, Outlives
<1>6. CASE op' = [op EXCEPT ![p] = [done EXCEPT !.at = "ready"]]
  <2> DEFINE x == [done EXCEPT !.at = "ready"]
  <2>1. x \in Ops
    BY <1>2 DEF Ops, Calling
  <2>2. /\ x.at = "ready" /\ x.outcome = "none" /\ x.for = "sign"
        /\ x.signers = done.signers /\ x.pinned = done.pinned /\ x.expected = done.expected
        /\ x.source = done.source /\ x.next = done.next /\ x.deadline = done.deadline
        /\ x.write = done.write /\ (x.write => x.effects = 1)
    BY <1>2, <1>3 DEF Ops
  <2> HIDE DEF x
  <2>3. Phase(x) /\ Effects(x) /\ Fetched(x)
    BY <2>2 DEF Phase, Effects, Fetched, Calling, Waiting
  <2>4. Pinned(x) /\ Outlives(x)
    BY <1>3, <1>5, <2>2 DEF Pinned, Outlives
  <2>5. op' = [op EXCEPT ![p] = x]
    BY <1>6 DEF x
  <2> QED BY <1>4, <2>1, <2>2, <2>3, <2>4, <2>5, Private DEF Sound, Holding
<1>7. ASSUME NEW o \in {op[p], done}, NEW failure \in {"throttled", "transient", "other"},
             o = op[p] \/ failure # "throttled",
             op' = [op EXCEPT ![p] = Failed(o, failure, "retryable")]
      PROVE  IInv'
  <2> DEFINE x == Failed(o, failure, "retryable")
  <2>1. o \in Ops /\ o.for = "sign" /\ o.at = "sent" /\ Pinned(o) /\ Outlives(o)
    BY <1>1, <1>2, <1>3, <1>5, <1>7 DEF Sound
  <2>2. o.write => o.effects <= 1 /\ (o.effects = 0 \/ ~Retryable(o, failure))
    BY <1>1, <1>3, <1>7 DEF Retryable
  <2>3. x \in Ops /\ Sound(x) /\ x.at \in {"backoff", "done"}
    BY <2>1, <2>2, FailedOp
  <2>4. op' = [op EXCEPT ![p] = x]
    BY <1>7
  <2> HIDE DEF x
  <2> QED BY <1>4, <2>3, <2>4, Private DEF Holding
<1> QED BY <1>4, <1>6, <1>7

LEMMA BackoffStep == ASSUME IInv, NEW p \in Commands, Backoff(p) PROVE IInv'
<1>1. /\ op[p] \in Ops /\ Sound(op[p]) /\ op[p].at = "backoff" /\ op[p].at \notin Holding
      /\ op[p].outcome \in {"error", "retryable"} /\ op[p].attempt + 1 \in 0..MaxAttempts
  BY OwnState, CallerAssumption DEF Backoff, Sound, Phase, Holding, Ops
<1>2. CASE ContextDone(op[p])
  <2> DEFINE x == Ended(op[p], op[p].outcome)
  <2>1. x \in Ops /\ Sound(x) /\ x.at = "done"
    BY <1>1, EndedOp DEF Outcomes, Sound, Effects
  <2>2. op' = [op EXCEPT ![p] = x]
    BY <1>2 DEF Backoff, Do
  <2> HIDE DEF x
  <2> QED BY <1>1, <2>1, <2>2, Private DEF Backoff, world, Holding
<1>3. CASE ~ContextDone(op[p])
  <2> DEFINE x == [op[p] EXCEPT !.at = "sign", !.attempt = @ + 1, !.outcome = "none"]
  <2>1. x \in Ops
    <3>1. \A n \in 0..MaxAttempts : [op[p] EXCEPT !.at = "sign", !.attempt = n, !.outcome = "none"] \in Ops
      BY <1>1 DEF Ops, Calling, Outcomes
    <3>2. x = [op[p] EXCEPT !.at = "sign", !.attempt = op[p].attempt + 1, !.outcome = "none"]
      BY <1>1 DEF Ops
    <3> QED BY <1>1, <3>1, <3>2
  <2>2. /\ x.at = "sign" /\ x.outcome = "none" /\ x.for = op[p].for
        /\ x.signers = op[p].signers /\ x.pinned = op[p].pinned /\ x.expected = op[p].expected
        /\ x.source = op[p].source /\ x.next = op[p].next /\ x.deadline = op[p].deadline
        /\ x.write = op[p].write /\ x.effects = op[p].effects
    BY <1>1 DEF Ops
  <2>3. op' = [op EXCEPT ![p] = x]
    BY <1>3 DEF Backoff, Do
  <2> HIDE DEF x
  <2>4. Sound(x)
    BY <1>1, <2>2 DEF Sound, Phase, Pinned, Outlives, Effects, Fetched, Calling, Waiting
  <2> QED BY <1>1, <2>1, <2>2, <2>3, <2>4, Private DEF Backoff, world, Holding
<1> QED BY <1>2, <1>3

-----------------------------------------------------------------------------
(* The world.                                                              *)

\* With time keys only become worse.
LEMMA TickStep == ASSUME IInv, Tick PROVE IInv'
<1> USE CallerAssumption DEF Tick
<1>1. World'
  BY DEF IInv, World
<1>2. Operations'
  <2>1. ASSUME NEW q \in Commands PROVE Sound(op[q])'
    <3>1. op[q] \in Ops /\ Sound(op[q]) /\ clock \in Nat
      BY OwnState
    <3>2. Outlives(op[q])'
      BY <3>1 DEF Sound, Outlives, Ops, Always
    <3> QED BY <3>1, <3>2 DEF Sound, Phase, Pinned, Effects, Fetched, Renewable
  <2> QED BY <2>1 DEF IInv, Operations
<1>3. Locking'
  BY DEF IInv, Locking
<1>4. SharedKey'
  BY KeysAreKeys DEF IInv, World, SharedKey, Lasting, RefreshWindow
<1> QED BY <1>1, <1>2, <1>3, <1>4 DEF IInv

LEMMA EditProfileStep == ASSUME IInv, EditProfile PROVE IInv'
BY DEF EditProfile, IInv, World, Operations, Sound, Phase, Pinned, Outlives, Effects, Fetched, Renewable,
       Locking, SharedKey, Lasting

LEMMA KillStep == ASSUME IInv, NEW p \in Commands, Kill(p) PROVE IInv'
<1> DEFINE x == Ended(op[p], "killed")
<1>1. x \in Ops /\ Sound(x) /\ x.at = "done" /\ (lock = p <=> op[p].at \in Holding)
  BY OwnState, EndedOp DEF Outcomes, Sound, Effects
<1>2. op' = [op EXCEPT ![p] = x]
  BY DEF Kill, Do
<1> HIDE DEF x
<1>3. CASE lock = p
  BY <1>1, <1>2, <1>3, UnderLock, CallerAssumption DEF Kill, Holding
<1>4. CASE lock # p
  BY <1>1, <1>2, <1>4, Private DEF Kill, Holding
<1> QED BY <1>3, <1>4

-----------------------------------------------------------------------------
LEMMA Initially == Init => IInv
<1> SUFFICES ASSUME Init PROVE IInv
  OBVIOUS
<1>1. World
  BY CallerAssumption DEF Init, World, NoEntry
<1>2. Operations
  BY IdleOp DEF Init, Operations
<1>3. Locking /\ SharedKey
  BY CallerAssumption DEF Init, Locking, SharedKey, Idle, NoEntry, Holding
<1> QED BY <1>1, <1>2, <1>3 DEF IInv

LEMMA Inductive == IInv /\ [Next]_vars => IInv'
<1> SUFFICES ASSUME IInv, [Next]_vars PROVE IInv'
  OBVIOUS
<1>1. ASSUME NEW p \in Commands, Begin(p) \/ Progress(p) \/ Kill(p) PROVE IInv'
  BY <1>1, BeginStep, KillStep, TimesOutStep, AcquireFixedStep, AcquireReadStep, AcquireRoleStep,
     SourceFailsStep, AcquireSSOStep, LockProfileStep, LockTimesOutStep, ReadCacheStep, FetchStep,
     RecheckStep, StoreStep, StartCallStep, FinishStep, GetCredentialStep, AnswerStep, BackoffStep
     DEF Progress
<1>2. CASE Tick
  BY <1>2, TickStep
<1>3. CASE EditProfile
  BY <1>3, EditProfileStep
<1>4. CASE UNCHANGED vars
  BY <1>4 DEF vars, IInv, World, Operations, Sound, Phase, Pinned, Outlives, Effects, Fetched, Renewable,
              Locking, SharedKey, Lasting
<1> QED BY <1>1, <1>2, <1>3, <1>4 DEF Next

\* However often it is repeated, a write is carried out at most once, and an
\* error that calls itself retryable is of a write that was not
\* (executeOpenAPIRequest).
THEOREM WritesOnce == Spec => []WrittenOnce
<1>1. IInv => WrittenOnce
  BY DEF IInv, Operations, Sound, Effects, WrittenOnce
<1> QED BY Initially, Inductive, <1>1, PTL DEF Spec

\* All requests of an operation are signed by one identity, of the account that
\* the role or the CloudSSO profile names; a key that cannot be renewed lasts to
\* the operation's deadline; and whoever fetches a CloudSSO key has found none
\* under the lock (operationIdentityGuard, validateCredentialLifetime).
THEOREM SignsAsOne == Spec => []Signing
<1>1. IInv => TypeOK
  <2>1. IInv => \A p \in Commands : op[p] \in Ops
    BY DEF IInv, Operations
  <2> QED BY <2>1 DEF IInv, World, TypeOK, Ops, Waiting, Calling, Outcomes
<1>2. IInv => OneIdentity
  <2> SUFFICES ASSUME IInv, NEW p \in Commands
               PROVE  /\ Cardinality(op[p].signers) <= 1
                      /\ op[p].expected # Nobody =>
                           \A who \in op[p].signers : Account(who) = op[p].expected
    BY DEF OneIdentity
  <2>1. Pinned(op[p])
    BY DEF IInv, Operations, Sound
  <2>2. op[p].signers = {} \/ \E who : op[p].signers = {who}
    BY <2>1 DEF Pinned
  <2>3. Cardinality(op[p].signers) <= 1
    <3>1. CASE op[p].signers = {}
      BY <3>1, FS_EmptySet
    <3>2. ASSUME NEW who, op[p].signers = {who} PROVE Cardinality(op[p].signers) <= 1
      <4>1. Cardinality({who}) = 1
        BY FS_Singleton
      <4> QED BY <3>2, <4>1
    <3> QED BY <2>2, <3>1, <3>2
  <2>4. op[p].expected # Nobody => \A who \in op[p].signers : Account(who) = op[p].expected
    BY <2>1 DEF Pinned
  <2> QED BY <2>3, <2>4
<1>3. IInv => LeaseLasts
  BY DEF IInv, Operations, Sound, Outlives, LeaseLasts
<1>4. IInv => Signing
  BY <1>1, <1>2, <1>3 DEF IInv, Signing
<1> QED BY Initially, Inductive, <1>4, PTL DEF Spec

-----------------------------------------------------------------------------
(* A set in order, and a piece of it.                                      *)

Rank(S, i) == Cardinality({j \in S : j < i})

LEMMA RankGrows ==
  ASSUME NEW S, S \subseteq Nat, IsFiniteSet(S), NEW i \in S, NEW j \in Nat, i < j
  PROVE  Rank(S, i) \in Nat /\ Rank(S, j) \in Nat /\ Rank(S, i) < Rank(S, j)
<1> DEFINE A == {k \in S : k < i}
           B == {k \in S : k < j}
<1>1. IsFiniteSet(B) /\ Cardinality(B) \in Nat
  BY FS_Subset, FS_CardinalityType
<1>2. A \in SUBSET B /\ i \in B /\ i \notin A
  <2>1. \A k \in S : k < i => k < j
    OBVIOUS
  <2>2. A \subseteq B
    BY <2>1
  <2>3. i \in B /\ i \notin A
    OBVIOUS
  <2> QED BY <2>2, <2>3
<1>3. Cardinality(A) \in Nat /\ Cardinality(A) <= Cardinality(B) /\ Cardinality(A) # Cardinality(B)
  <2> HIDE DEF A, B
  <2> QED BY <1>1, <1>2, FS_Subset, FS_CardinalityType
<1> QED BY <1>1, <1>3 DEF Rank

LEMMA RankBound ==
  ASSUME NEW S, S \subseteq Nat, IsFiniteSet(S), NEW i \in S
  PROVE  Rank(S, i) \in Nat /\ Rank(S, i) < Cardinality(S)
<1> DEFINE A == {k \in S : k < i}
<1>1. A \in SUBSET S /\ i \notin A
  OBVIOUS
<1>2. Cardinality(A) \in Nat /\ Cardinality(S) \in Nat /\ Cardinality(A) <= Cardinality(S) /\ Cardinality(A) # Cardinality(S)
  <2> HIDE DEF A
  <2> QED BY <1>1, FS_Subset, FS_CardinalityType
<1> QED BY <1>2 DEF Rank

LEMMA InOrderIs ==
  ASSUME NEW S, S \subseteq Nat, IsFiniteSet(S)
  PROVE  /\ Cardinality(S) \in Nat /\ InOrder(S) \in [1..Cardinality(S) -> S]
         /\ \A n \in 1..Cardinality(S) : Rank(S, InOrder(S)[n]) = n - 1
<1> DEFINE N == Cardinality(S)
           f == [i \in S |-> Rank(S, i) + 1]
<1>1. N \in Nat
  BY FS_CardinalityType
<1>2. f \in [S -> 1..N]
  <2>1. \A i \in S : Rank(S, i) \in Nat /\ Rank(S, i) < N
    BY RankBound
  <2>2. \A i \in S : Rank(S, i) + 1 \in 1..N
    BY <1>1, <2>1
  <2> QED BY <2>2
<1>3. \A i, j \in S : f[i] = f[j] => i = j
  <2> SUFFICES ASSUME NEW i \in S, NEW j \in S, f[i] = f[j] PROVE ~(i < j)
    OBVIOUS
  <2>1. Rank(S, i) \in Nat /\ Rank(S, j) \in Nat
    BY RankBound
  <2>2. i < j => Rank(S, i) < Rank(S, j)
    BY RankGrows
  <2> QED BY <2>1, <2>2
<1>4. IsFiniteSet(1..N) /\ Cardinality(1..N) = N
  BY <1>1, FS_Interval
<1>5. f \in Surjection(S, 1..N)
  <2>1. f \in Injection(S, 1..N)
    BY <1>2, <1>3 DEF Injection, IsInjective
  <2> HIDE DEF f
  <2> QED BY <2>1, <1>4, FS_Injection
<1>6. \A n \in 1..N : \E i \in S : Rank(S, i) = n - 1
  <2> SUFFICES ASSUME NEW n \in 1..N PROVE \E i \in S : Rank(S, i) = n - 1
    OBVIOUS
  <2>1. PICK i \in S : f[i] = n
    BY <1>5 DEF Surjection
  <2>2. Rank(S, i) \in Nat
    BY RankBound
  <2> QED BY <2>1, <2>2
<1>7. InOrder(S) = [n \in 1..N |-> CHOOSE i \in S : Rank(S, i) = n - 1]
  BY DEF InOrder, Rank
<1> HIDE DEF N
<1>8. \A n \in 1..N : InOrder(S)[n] \in S /\ Rank(S, InOrder(S)[n]) = n - 1
  BY <1>6, <1>7
<1> QED BY <1>1, <1>7, <1>8 DEF N

LEMMA PieceShape ==
  ASSUME NEW S, NEW q \in Seq(S), NEW a \in Nat \ {0}, NEW b \in Nat
  PROVE  LET p == Piece(q, a, b) last == IF b <= Len(q) THEN b ELSE Len(q) IN
         /\ p \in Seq(S) /\ Len(p) = IF a <= last THEN last - a + 1 ELSE 0
         /\ \A n \in 1..Len(p) : p[n] = q[n + a - 1]
<1> DEFINE last == IF b <= Len(q) THEN b ELSE Len(q)
<1>1. Len(q) \in Nat /\ last \in Nat /\ last <= Len(q)
  OBVIOUS
<1>2. Min({b, Len(q)}) = last
  BY <1>1 DEF Min
<1>3. \A n \in a..last : q[n] \in S
  BY <1>1
<1>4. Piece(q, a, b) = SubSeq(q, a, last)
  BY <1>2 DEF Piece
<1> HIDE DEF last
<1>5. /\ SubSeq(q, a, last) \in Seq(S)
      /\ Len(SubSeq(q, a, last)) = IF a <= last THEN last - a + 1 ELSE 0
      /\ \A n \in 1..last - a + 1 : SubSeq(q, a, last)[n] = q[a + n - 1]
  BY <1>1, <1>3, SubSeqProperties
<1>6. \A n \in 1..Len(SubSeq(q, a, last)) : n \in 1..last - a + 1 /\ a + n - 1 = n + a - 1
  BY <1>1, <1>5
<1> QED BY <1>4, <1>5, <1>6 DEF last

\* A piece has the items whose numbers it asks for, in their order.
LEMMA PieceOf ==
  ASSUME NEW S, S \subseteq Nat, IsFiniteSet(S), NEW a \in Nat \ {0}, NEW b \in Nat
  PROVE  LET p == Piece(InOrder(S), a, b) IN
         /\ p \in Seq(S)
         /\ \A m, n \in DOMAIN p : m < n => p[m] < p[n]
         /\ \A i : i \in ToSet(p) <=> i \in S /\ a <= Rank(S, i) + 1 /\ Rank(S, i) + 1 <= b
<1> DEFINE q == InOrder(S)
           N == Cardinality(S)
           p == Piece(q, a, b)
           last == IF b <= N THEN b ELSE N
<1>1. /\ N \in Nat /\ q \in [1..N -> S]
      /\ \A n \in 1..N : Rank(S, q[n]) = n - 1
  BY InOrderIs
<1>2. q \in Seq(S) /\ Len(q) = N
  BY <1>1
<1>3. /\ p \in Seq(S) /\ Len(p) = IF a <= last THEN last - a + 1 ELSE 0
      /\ \A n \in 1..Len(p) : p[n] = q[n + a - 1]
  <2> HIDE DEF q
  <2> QED BY <1>2, PieceShape
<1> HIDE DEF q, N, p
<1>4. DOMAIN p = 1..Len(p) /\ Len(p) \in Nat /\ last \in Nat
  BY <1>1, <1>3
<1>5. \A n \in 1..Len(p) : n + a - 1 \in 1..N /\ n + a - 1 <= b
  BY <1>1, <1>3, <1>4
<1> HIDE DEF last
<1>6. \A n \in 1..Len(p) : p[n] \in S /\ p[n] \in Nat /\ Rank(S, p[n]) = n + a - 2
  <2> SUFFICES ASSUME NEW n \in 1..Len(p) PROVE p[n] \in S /\ p[n] \in Nat /\ Rank(S, p[n]) = n + a - 2
    OBVIOUS
  <2>1. n + a - 1 \in 1..N /\ p[n] = q[n + a - 1]
    BY <1>3, <1>5
  <2>2. Rank(S, q[n + a - 1]) = n + a - 1 - 1
    BY <1>1, <2>1
  <2>3. n + a - 1 - 1 = n + a - 2
    BY <1>4
  <2>4. q[n + a - 1] \in S
    BY <1>1, <2>1
  <2> QED BY <2>1, <2>2, <2>3, <2>4
<1>7. \A m, n \in DOMAIN p : m < n => p[m] < p[n]
  <2> SUFFICES ASSUME NEW m \in 1..Len(p), NEW n \in 1..Len(p), m < n PROVE p[m] < p[n]
    BY <1>4
  <2>1. Rank(S, p[m]) < Rank(S, p[n])
    BY <1>4, <1>6
  <2>2. p[n] < p[m] => Rank(S, p[n]) < Rank(S, p[m])
    BY <1>6, RankGrows
  <2>3. p[n] = p[m] => Rank(S, p[n]) = Rank(S, p[m])
    OBVIOUS
  <2>4. Rank(S, p[m]) \in Int /\ Rank(S, p[n]) \in Int
    BY <1>4, <1>6
  <2>5. ~(p[n] < p[m]) /\ p[n] # p[m]
    BY <2>1, <2>2, <2>3, <2>4
  <2>6. p[m] \in Nat /\ p[n] \in Nat
    BY <1>6
  <2> HIDE DEF Rank
  <2> QED BY <2>5, <2>6
<1>8. \A i \in ToSet(p) : i \in S /\ a <= Rank(S, i) + 1 /\ Rank(S, i) + 1 <= b
  <2> SUFFICES ASSUME NEW n \in 1..Len(p)
               PROVE  p[n] \in S /\ a <= Rank(S, p[n]) + 1 /\ Rank(S, p[n]) + 1 <= b
    BY <1>4 DEF ToSet
  <2> QED BY <1>5, <1>6
<1>9. \A i \in S : a <= Rank(S, i) + 1 /\ Rank(S, i) + 1 <= b => i \in ToSet(p)
  <2> SUFFICES ASSUME NEW i \in S, a <= Rank(S, i) + 1, Rank(S, i) + 1 <= b PROVE i \in ToSet(p)
    OBVIOUS
  <2>1. Rank(S, i) \in Nat /\ Rank(S, i) < N
    BY RankBound DEF N
  <2> DEFINE n == Rank(S, i) + 2 - a
  <2>2. n \in 1..Len(p)
    <3>1. Rank(S, i) + 1 <= last
      BY <1>1, <2>1 DEF last
    <3>2. a <= last
      BY <1>4, <2>1, <3>1
    <3>3. Len(p) = last - a + 1
      BY <1>3, <3>2
    <3> QED BY <1>4, <2>1, <3>1, <3>3
  <2>3. p[n] \in S /\ Rank(S, p[n]) = Rank(S, i) /\ p[n] \in Nat /\ i \in Nat
    <3>1. Rank(S, p[n]) = n + a - 2
      BY <2>2, <1>6
    <3>2. n + a - 2 = Rank(S, i)
      BY <2>1
    <3>3. p[n] \in S /\ p[n] \in Nat
      BY <2>2, <1>6
    <3> QED BY <3>1, <3>2, <3>3
  <2> HIDE DEF n
  <2>4. ~(p[n] < i) /\ ~(i < p[n])
    <3>1. p[n] < i => Rank(S, p[n]) < Rank(S, i)
      BY <2>3, RankGrows
    <3>2. i < p[n] => Rank(S, i) < Rank(S, p[n])
      BY <2>3, RankGrows
    <3> QED BY <2>1, <2>3, <3>1, <3>2
  <2>5. p[n] = i
    BY <2>3, <2>4
  <2> QED BY <2>2, <2>5, <1>4 DEF ToSet
<1>10. \A i : i \in ToSet(p) <=> i \in S /\ a <= Rank(S, i) + 1 /\ Rank(S, i) + 1 <= b
  BY <1>8, <1>9
<1> QED BY <1>3, <1>7, <1>10 DEF p, q

\* Sequences that hold nothing twice, and what they hold.
Once(q) == \A m, n \in DOMAIN q : m # n => q[m] # q[n]

LEMMA JoinIs ==
  ASSUME NEW S, NEW p \in Seq(S), NEW q \in Seq(S)
  PROVE  /\ p \o q \in Seq(S) /\ Len(p \o q) = Len(p) + Len(q)
         /\ ToSet(p \o q) = ToSet(p) \cup ToSet(q) /\ ToSet(p) \subseteq S
         /\ DOMAIN (p \o q) = 1..Len(p) + Len(q) /\ DOMAIN p = 1..Len(p) /\ DOMAIN q = 1..Len(q)
         /\ \A n \in 1..Len(p) : (p \o q)[n] = p[n]
         /\ \A n \in 1..Len(q) : (p \o q)[Len(p) + n] = q[n]
         /\ \A n \in 1..Len(p) + Len(q) : n \in 1..Len(p) \/ n - Len(p) \in 1..Len(q)
<1> DEFINE j == p \o q
<1>1. /\ j \in Seq(S) /\ Len(j) = Len(p) + Len(q) /\ Len(p) \in Nat /\ Len(q) \in Nat
      /\ \A n \in 1..Len(p) : j[n] = p[n]
      /\ \A n \in 1..Len(q) : j[Len(p) + n] = q[n]
  OBVIOUS
<1>2. DOMAIN j = 1..Len(p) + Len(q) /\ DOMAIN p = 1..Len(p) /\ DOMAIN q = 1..Len(q)
  BY <1>1
<1> HIDE DEF j
<1>3. \A n \in 1..Len(p) + Len(q) : n \in 1..Len(p) \/ (n - Len(p) \in 1..Len(q) /\ n = Len(p) + (n - Len(p)))
  BY <1>1
<1>4. \A n \in 1..Len(p) : n \in 1..Len(p) + Len(q)
  BY <1>1
<1>5. \A n \in 1..Len(q) : Len(p) + n \in 1..Len(p) + Len(q)
  BY <1>1
<1>6. ToSet(j) \subseteq ToSet(p) \cup ToSet(q)
  <2> SUFFICES ASSUME NEW n \in 1..Len(p) + Len(q) PROVE j[n] \in ToSet(p) \cup ToSet(q)
    BY <1>2 DEF ToSet
  <2>1. CASE n \in 1..Len(p)
    BY <1>1, <1>2, <2>1 DEF ToSet
  <2>2. CASE n - Len(p) \in 1..Len(q) /\ n = Len(p) + (n - Len(p))
    <3>1. j[n] = q[n - Len(p)]
      BY <1>1, <2>2
    <3> QED BY <1>2, <3>1, <2>2 DEF ToSet
  <2> QED BY <1>3, <2>1, <2>2
<1>7. ToSet(p) \subseteq ToSet(j)
  BY <1>1, <1>2, <1>4 DEF ToSet
<1>8. ToSet(q) \subseteq ToSet(j)
  BY <1>1, <1>2, <1>5 DEF ToSet
<1>9. ToSet(p) \subseteq S
  BY <1>2 DEF ToSet
<1> QED BY <1>1, <1>2, <1>3, <1>6, <1>7, <1>8, <1>9 DEF j

LEMMA JoinOnce ==
  ASSUME NEW S, NEW p \in Seq(S), NEW q \in Seq(S), NEW T,
         \A m, n \in DOMAIN p : m # n /\ p[m] = p[n] => p[m] \in T,
         \A m, n \in DOMAIN q : m # n /\ q[m] = q[n] => q[m] \in T,
         ToSet(p) \cap ToSet(q) \subseteq T
  PROVE  \A m, n \in DOMAIN (p \o q) : m # n /\ (p \o q)[m] = (p \o q)[n] => (p \o q)[m] \in T
<1> DEFINE j == p \o q
<1>1. /\ DOMAIN j = 1..Len(p) + Len(q) /\ DOMAIN p = 1..Len(p) /\ DOMAIN q = 1..Len(q)
      /\ \A n \in 1..Len(p) : j[n] = p[n]
      /\ \A n \in 1..Len(q) : j[Len(p) + n] = q[n]
      /\ \A n \in 1..Len(p) + Len(q) : n \in 1..Len(p) \/ n - Len(p) \in 1..Len(q)
      /\ Len(p) \in Nat /\ Len(q) \in Nat
  BY JoinIs
<1> HIDE DEF j
<1>2. \A n \in DOMAIN j : \/ n \in DOMAIN p /\ j[n] = p[n]
                          \/ n - Len(p) \in DOMAIN q /\ j[n] = q[n - Len(p)]
  <2> SUFFICES ASSUME NEW n \in 1..Len(p) + Len(q), n \notin 1..Len(p)
               PROVE  n - Len(p) \in 1..Len(q) /\ j[n] = q[n - Len(p)]
    BY <1>1
  <2>1. n - Len(p) \in 1..Len(q) /\ Len(p) + (n - Len(p)) = n
    BY <1>1
  <2> QED BY <1>1, <2>1
<1>3. \A x \in DOMAIN p, y \in DOMAIN q : p[x] = q[y] => p[x] \in T
  BY DEF ToSet
<1> SUFFICES ASSUME NEW m \in DOMAIN j, NEW n \in DOMAIN j, m # n, j[m] = j[n] PROVE j[m] \in T
  BY DEF j
<1>4. m \in Int /\ n \in Int /\ Len(p) \in Int
  BY <1>1
<1>5. m - Len(p) # n - Len(p)
  BY <1>4
<1>6. CASE m \in DOMAIN p /\ j[m] = p[m]
  BY <1>2, <1>3, <1>6
<1>7. CASE m - Len(p) \in DOMAIN q /\ j[m] = q[m - Len(p)]
  BY <1>2, <1>3, <1>5, <1>7
<1> QED BY <1>2, <1>6, <1>7

LEMMA JoinedOnce ==
  ASSUME NEW S, NEW p \in Seq(S), NEW q \in Seq(S), Once(p), Once(q), ToSet(p) \cap ToSet(q) \subseteq {}
  PROVE  Once(p \o q)
<1> DEFINE T == {}
<1>1. /\ \A m, n \in DOMAIN p : m # n /\ p[m] = p[n] => p[m] \in T
      /\ \A m, n \in DOMAIN q : m # n /\ q[m] = q[n] => q[m] \in T
      /\ ToSet(p) \cap ToSet(q) \subseteq T
  BY DEF Once
<1>2. \A x : x \notin T
  OBVIOUS
<1> HIDE DEF T
<1>3. \A m, n \in DOMAIN (p \o q) : m # n /\ (p \o q)[m] = (p \o q)[n] => (p \o q)[m] \in T
  BY <1>1, JoinOnce
<1> QED BY <1>2, <1>3 DEF Once

LEMMA SeqWider == ASSUME NEW S, NEW T, S \subseteq T, NEW q \in Seq(S) PROVE q \in Seq(T)
OBVIOUS

LEMMA EmptyIs == ASSUME NEW q \in Seq({}) PROVE q = <<>> /\ Len(q) = 0
OBVIOUS

LEMMA Increasing ==
  ASSUME NEW S, S \subseteq Nat, NEW q \in Seq(S), \A m, n \in DOMAIN q : m < n => q[m] < q[n]
  PROVE  Once(q)
<1> SUFFICES ASSUME NEW m \in DOMAIN q, NEW n \in DOMAIN q, m # n PROVE q[m] # q[n]
  BY DEF Once
<1>1. m \in Nat /\ n \in Nat /\ q[m] \in Nat /\ q[n] \in Nat
  <2>1. DOMAIN q = 1..Len(q) /\ Len(q) \in Nat
    OBVIOUS
  <2>2. \A k \in 1..Len(q) : q[k] \in S
    OBVIOUS
  <2>3. m \in 1..Len(q) /\ n \in 1..Len(q)
    BY <2>1
  <2>4. q[m] \in S /\ q[n] \in S
    BY <2>2, <2>3
  <2>5. m \in Nat /\ n \in Nat
    BY <2>1, <2>3
  <2> QED BY <2>4, <2>5
<1>2. m < n \/ n < m
  BY <1>1
<1>3. q[m] < q[n] \/ q[n] < q[m]
  BY <1>2
<1> QED BY <1>1, <1>3

LEMMA OnceCounts ==
  ASSUME NEW S, NEW q \in Seq(S), Once(q)
  PROVE  IsFiniteSet(ToSet(q)) /\ Cardinality(ToSet(q)) = Len(q)
<1>1. Len(q) \in Nat /\ DOMAIN q = 1..Len(q)
  OBVIOUS
<1>2. IsFiniteSet(1..Len(q)) /\ Cardinality(1..Len(q)) = Len(q)
  BY <1>1, FS_Interval
<1>3. q \in [1..Len(q) -> ToSet(q)]
  <2>1. q = [i \in 1..Len(q) |-> q[i]]
    OBVIOUS
  <2>2. \A i \in 1..Len(q) : q[i] \in ToSet(q)
    BY <1>1 DEF ToSet
  <2> QED BY <2>1, <2>2
<1>4. q \in Surjection(1..Len(q), ToSet(q))
  BY <1>1, <1>3 DEF Surjection, ToSet
<1>5. q \in Injection(1..Len(q), ToSet(q))
  BY <1>1, <1>3 DEF Injection, IsInjective, Once
<1> QED BY <1>2, <1>4, <1>5, FS_Surjection

-----------------------------------------------------------------------------
(* What a command that reads pages knows.                                  *)

Stays == added = {} /\ removed = {}
Shapes ==
  /\ mode \in {"page", "token"} /\ all \in BOOLEAN /\ limit \in Nat \ {0}
  /\ list \subseteq Items /\ page \in Nat \ {0} /\ token \in Nat
  /\ total \in Seq(Nat) /\ got \in Seq(Items)
\* What is shown is there, or was; with --all no id is shown twice.
Came == Shown \subseteq list \cup removed
IdsOnce == all => \A m, n \in DOMAIN got : m # n /\ got[m] = got[n] => got[m] \in Unnamed
\* By page number, the pages before this one if nothing changes; by token, all
\* before it but for what came meanwhile.
PageProgress ==
  mode = "page" /\ outcome = "running" /\ Stays =>
    Once(got) /\ Shown = {i \in list : Rank(list, i) < (page - 1) * limit}
TokenProgress ==
  mode = "token" /\ outcome = "running" =>
    /\ Once(got) /\ \A i \in Shown : i < token
    /\ \A i \in list \ added : i < token => i \in Shown
\* The end.
AllRead ==
  outcome = "complete" =>
    /\ mode = "token" => Once(got) /\ list \ added \subseteq Shown
    /\ mode = "page" /\ Stays => Once(got) /\ Shown = list
    /\ mode = "page" /\ all => Len(got) = Cardinality(list)
ReadingInv == Shapes /\ Came /\ IdsOnce /\ PageProgress /\ TokenProgress /\ AllRead

LEMMA ListIs ==
  ASSUME list \subseteq Items
  PROVE  list \subseteq Nat /\ IsFiniteSet(list) /\ Cardinality(list) \in Nat
<1>1. IsFiniteSet(list)
  BY CollectionAssumption, FS_Subset
<1> QED BY <1>1, CollectionAssumption, FS_CardinalityType

LEMMA StartIs ==
  ASSUME StartReading
  PROVE  ReadingInv
<1>1. Shapes /\ got = <<>> /\ Shown = {} /\ Once(got)
  <2>1. limit \in Nat \ {0}
    BY CollectionAssumption DEF StartReading
  <2>2. page \in Nat \ {0}
    BY DEF StartReading
  <2>3. token \in Nat
    BY DEF StartReading, NoToken
  <2>4. got = <<>> /\ total = <<>> /\ list \subseteq Items /\ mode \in {"page", "token"} /\ all \in BOOLEAN
    BY DEF StartReading
  <2>5. Shown = {} /\ Once(got)
    BY <2>4 DEF Shown, ToSet, Once
  <2> QED BY <2>1, <2>2, <2>3, <2>4, <2>5 DEF Shapes
<1>2. PageProgress
  <2> SUFFICES ASSUME mode = "page", outcome = "running" PROVE {i \in list : Rank(list, i) < (page - 1) * limit} = {}
    BY <1>1 DEF PageProgress
  <2>1. page = 1
    BY DEF StartReading
  <2>2. (page - 1) * limit = 0
    BY <1>1, <2>1 DEF Shapes
  <2>3. \A i \in list : Rank(list, i) \in Nat
    BY <1>1, ListIs, RankBound DEF Shapes
  <2> QED BY <2>2, <2>3
<1>3. TokenProgress
  <2> SUFFICES ASSUME mode = "token", outcome = "running" PROVE \A i \in list : ~(i < token)
    BY <1>1 DEF TokenProgress
  <2>1. token = 0
    BY DEF StartReading, NoToken
  <2> QED BY <1>1, <2>1, ListIs DEF Shapes
<1>4. Came /\ IdsOnce /\ AllRead
  BY <1>1 DEF Came, IdsOnce, AllRead, StartReading, Once
<1> QED BY <1>1, <1>2, <1>3, <1>4 DEF ReadingInv

-----------------------------------------------------------------------------
(* By page number.                                                         *)

LEMMA PageIs ==
  ASSUME Shapes
  PROVE  /\ PageOf(page) \in Seq(list) /\ Once(PageOf(page))
         /\ ToSet(PageOf(page)) =
              {i \in list : (page - 1) * limit <= Rank(list, i) /\ Rank(list, i) < page * limit}
         /\ (page - 1) * limit \in Nat /\ page * limit \in Nat /\ (page - 1) * limit <= page * limit
         /\ TotalOf(PageOf(page)) = Cardinality(list)
<1> DEFINE a == (page - 1) * limit
           b == page * limit
           items == PageOf(page)
<1>1. a \in Nat /\ b \in Nat /\ a <= b
  <2>1. page \in Nat /\ page - 1 \in Nat /\ limit \in Nat
    BY DEF Shapes
  <2>2. \A x, y \in Nat : x * y \in Nat
    OBVIOUS
  <2>3. page * limit = (page - 1) * limit + limit
    BY <2>1
  <2> QED BY <2>1, <2>2, <2>3
<1>2. items = Piece(InOrder(list), a + 1, b)
  BY DEF PageOf
<1>3. list \subseteq Nat /\ IsFiniteSet(list) /\ Cardinality(list) \in Nat
  BY ListIs DEF Shapes
<1> HIDE DEF a, b, items
<1>4. a + 1 \in Nat \ {0}
  BY <1>1
<1>5. /\ items \in Seq(list)
      /\ \A m, n \in DOMAIN items : m < n => items[m] < items[n]
      /\ \A i : i \in ToSet(items) <=> i \in list /\ a + 1 <= Rank(list, i) + 1 /\ Rank(list, i) + 1 <= b
  <2> DEFINE c == a + 1
  <2>1. c \in Nat \ {0} /\ items = Piece(InOrder(list), c, b)
    BY <1>2, <1>4
  <2> HIDE DEF c
  <2>2. list \subseteq Nat /\ IsFiniteSet(list) /\ b \in Nat
    BY <1>1, <1>3
  <2>3. LET p == Piece(InOrder(list), c, b) IN
        /\ p \in Seq(list)
        /\ \A m, n \in DOMAIN p : m < n => p[m] < p[n]
        /\ \A i : i \in ToSet(p) <=> i \in list /\ c <= Rank(list, i) + 1 /\ Rank(list, i) + 1 <= b
    BY ONLY <2>1, <2>2, PieceOf
  <2> QED BY <2>1, <2>3 DEF c
<1>6. \A i \in list : Rank(list, i) \in Nat
  BY <1>3, RankBound
<1>7. ToSet(items) = {i \in list : a <= Rank(list, i) /\ Rank(list, i) < b}
  BY <1>1, <1>5, <1>6
<1>8. Once(items)
  BY <1>3, <1>5, Increasing
<1>9. TotalOf(items) = Cardinality(list)
  BY <1>5, EmptyIs, FS_EmptySet DEF TotalOf
<1> QED BY <1>1, <1>5, <1>7, <1>8, <1>9 DEF a, b, items

LEMMA PageRead ==
  ASSUME Shapes, Came, PageProgress, mode = "page", outcome = "running",
         NEW now, now = got \o PageOf(page)
  PROVE  /\ now \in Seq(Items) /\ ToSet(now) \subseteq list \cup removed
         /\ Stays => Once(now) /\ ToSet(now) = {i \in list : Rank(list, i) < page * limit}
<1> DEFINE items == PageOf(page)
           a == (page - 1) * limit
           b == page * limit
<1>1. /\ items \in Seq(list) /\ Once(items)
      /\ ToSet(items) = {i \in list : a <= Rank(list, i) /\ Rank(list, i) < b}
      /\ a \in Nat /\ b \in Nat /\ a <= b
  BY PageIs
<1> HIDE DEF items, a, b
<1>2. items \in Seq(Items) /\ got \in Seq(Items)
  BY <1>1, SeqWider DEF Shapes
<1>3. now \in Seq(Items) /\ ToSet(now) = Shown \cup ToSet(items)
  BY <1>2, JoinIs DEF items, Shown
<1>4. ASSUME Stays
      PROVE  Once(now) /\ ToSet(now) = {i \in list : Rank(list, i) < b}
  <2>1. Once(got) /\ Shown = {i \in list : Rank(list, i) < a}
    BY <1>4 DEF PageProgress, a
  <2>2. \A i \in list : Rank(list, i) \in Nat
    BY ListIs, RankBound DEF Shapes
  <2>3. ToSet(now) = {i \in list : Rank(list, i) < b}
    BY <1>1, <1>3, <2>1, <2>2
  <2>4. ToSet(got) \cap ToSet(items) \subseteq {}
    BY <1>1, <2>1, <2>2 DEF Shown
  <2>5. Once(now)
    BY <1>1, <1>2, <2>1, <2>4, JoinedOnce DEF items
  <2> QED BY <2>3, <2>5
<1> QED BY <1>1, <1>3, <1>4 DEF Came, b

LEMMA PageStep ==
  ASSUME ReadingInv, mode = "page", outcome = "running", NEW now, now = got \o PageOf(page),
         UNCHANGED <<commandVars, serviceVars, token, asked>>, page' = page + 1, got' = now,
         total' \in Seq(Nat),
         all => ~Repeats(PageOf(page)),
         \/ outcome' = "running"
         \/ outcome' = "complete" /\ all /\ Len(now) = Cardinality(list)
         \/ outcome' = "complete" /\ ~all /\ Cardinality(list) <= page * limit
  PROVE  ReadingInv'
<1> DEFINE items == PageOf(page)
<1>1. Shapes /\ Came /\ PageProgress /\ IdsOnce
  BY DEF ReadingInv
<1>2. /\ now \in Seq(Items) /\ ToSet(now) \subseteq list \cup removed
      /\ Stays => Once(now) /\ ToSet(now) = {i \in list : Rank(list, i) < page * limit}
  BY <1>1, PageRead
<1>3. /\ mode' = mode /\ all' = all /\ limit' = limit /\ list' = list /\ added' = added /\ removed' = removed
      /\ token' = token /\ got' = now /\ page' = page + 1
  BY DEF commandVars, serviceVars
<1>4. Shown' = ToSet(now) /\ Stays' = Stays /\ Once(got)' = Once(now)
  BY <1>3 DEF Shown, Stays, Once
<1>5. Shapes' /\ Came'
  <2>1. page + 1 \in Nat \ {0}
    BY <1>1 DEF Shapes
  <2> QED BY <1>1, <1>2, <1>3, <1>4, <2>1 DEF Shapes, Came
<1>6. IdsOnce'
  <2> SUFFICES ASSUME all PROVE \A m, n \in DOMAIN now : m # n /\ now[m] = now[n] => now[m] \in Unnamed
    BY <1>3 DEF IdsOnce
  <2>1. items \in Seq(Items) /\ Once(items)
    BY <1>1, PageIs, SeqWider DEF Shapes
  <2>2. ToSet(got) \cap ToSet(items) \subseteq Unnamed
    BY DEF Repeats, Ids
  <2>3. got \in Seq(Items) /\ \A m, n \in DOMAIN got : m # n /\ got[m] = got[n] => got[m] \in Unnamed
    BY <1>1 DEF IdsOnce, Shapes
  <2>4. \A m, n \in DOMAIN items : m # n /\ items[m] = items[n] => items[m] \in Unnamed
    BY <2>1 DEF Once
  <2> HIDE DEF items
  <2>5. now = got \o items
    BY DEF items
  <2> QED BY <2>1, <2>2, <2>3, <2>4, <2>5, JoinOnce
<1>7. PageProgress'
  <2>1. page' - 1 = page
    BY <1>1, <1>3 DEF Shapes
  <2> SUFFICES ASSUME Stays PROVE Once(now) /\ Shown' = {i \in list : Rank(list, i) < page * limit}
    BY <1>3, <1>4, <2>1 DEF PageProgress, Rank
  <2> QED BY <1>2, <1>4
<1>8. TokenProgress'
  BY <1>3 DEF TokenProgress
<1>9. AllRead'
  <2> SUFFICES ASSUME outcome' = "complete"
               PROVE  /\ Stays => Once(now) /\ ToSet(now) = list
                      /\ all => Len(now) = Cardinality(list)
    BY <1>3, <1>4 DEF AllRead
  <2>1. list \subseteq Nat /\ IsFiniteSet(list) /\ Cardinality(list) \in Nat
    BY <1>1, ListIs DEF Shapes
  <2>2. CASE all /\ Len(now) = Cardinality(list)
    <3> SUFFICES ASSUME Stays PROVE ToSet(now) = list
      BY <1>2, <2>2
    <3>1. IsFiniteSet(ToSet(now)) /\ Cardinality(ToSet(now)) = Cardinality(list)
      BY <1>2, <2>2, OnceCounts
    <3>2. ToSet(now) \in SUBSET list
      BY <1>2
    <3> QED BY <2>1, <3>1, <3>2, FS_Subset
  <2>3. CASE ~all /\ Cardinality(list) <= page * limit
    <3>1. \A i \in list : Rank(list, i) \in Nat /\ Rank(list, i) < Cardinality(list)
      BY <2>1, RankBound
    <3>2. page * limit \in Nat
      BY <1>1, PageIs
    <3>3. \A i \in list : Rank(list, i) < page * limit
      BY <2>1, <2>3, <3>1, <3>2
    <3> QED BY <1>2, <2>3, <3>3
  <2> QED BY <2>2, <2>3
<1> QED BY <1>5, <1>6, <1>7, <1>8, <1>9 DEF ReadingInv

LEMMA GivenUp ==
  ASSUME ReadingInv, got' = <<>>, outcome' \notin {"running", "complete"},
         UNCHANGED <<commandVars, serviceVars>>,
         page' \in Nat \ {0}, token' \in Nat, total' \in Seq(Nat)
  PROVE  ReadingInv'
<1>1. /\ mode' = mode /\ all' = all /\ limit' = limit /\ list' = list /\ added' = added /\ removed' = removed
  BY DEF commandVars, serviceVars
<1>2. Shown' = {}
  BY DEF Shown, ToSet
<1> QED BY <1>1, <1>2 DEF ReadingInv, Shapes, Came, IdsOnce, PageProgress, TokenProgress, AllRead

LEMMA AllPageKeeps ==
  ASSUME ReadingInv, AllPage
  PROVE  ReadingInv'
<1> DEFINE items == PageOf(page)
           first == IF total = <<>> THEN TotalOf(items) ELSE total[1]
           now == got \o items
<1>1. Shapes
  BY DEF ReadingInv
<1>2. TotalOf(items) = Cardinality(list) /\ Cardinality(list) \in Nat
  BY <1>1, PageIs, ListIs DEF Shapes
<1>3. first \in Nat
  <2>1. total # <<>> => total[1] \in Nat
    BY <1>1 DEF Shapes
  <2> QED BY <1>2, <2>1
<1>4. /\ outcome = "running" /\ all /\ mode = "page" /\ page' = page + 1 /\ total' = <<first>>
      /\ UNCHANGED <<commandVars, serviceVars, token, asked>>
      /\ \/ outcome' = "IncompletePagination" /\ got' = <<>>
         \/ /\ TotalOf(items) = first /\ ~Repeats(items)
            /\ outcome' = (IF Len(now) = first THEN "complete" ELSE "running") /\ got' = now
  BY DEF AllPage
<1> HIDE DEF items, first, now
<1>5. total' \in Seq(Nat) /\ page' \in Nat \ {0} /\ token' \in Nat
  <2>1. <<first>> \in Seq(Nat)
    BY <1>3
  <2>2. page + 1 \in Nat \ {0} /\ token \in Nat
    BY <1>1 DEF Shapes
  <2> QED BY <1>4, <2>1, <2>2
<1>6. CASE outcome' = "IncompletePagination" /\ got' = <<>>
  BY <1>4, <1>5, <1>6, GivenUp
<1>7. CASE /\ TotalOf(items) = first /\ ~Repeats(items)
           /\ outcome' = (IF Len(now) = first THEN "complete" ELSE "running") /\ got' = now
  <2>1. first = Cardinality(list)
    BY <1>2, <1>7
  <2>2. outcome' = "running" \/ (outcome' = "complete" /\ all /\ Len(now) = Cardinality(list))
    BY <1>4, <1>7, <2>1
  <2>3. now = got \o PageOf(page) /\ ~Repeats(PageOf(page))
    BY <1>7 DEF now, items
  <2> QED BY <1>4, <1>5, <1>7, <2>2, <2>3, PageStep
<1> QED BY <1>4, <1>6, <1>7

LEMMA ShowPageKeeps ==
  ASSUME ReadingInv, ShowPage, mode = "page"
  PROVE  ReadingInv'
<1> DEFINE items == PageOf(page)
           now == got \o items
<1>1. Shapes
  BY DEF ReadingInv
<1>2. TotalOf(items) = Cardinality(list) /\ Cardinality(list) \in Nat /\ page * limit \in Nat
  BY <1>1, PageIs, ListIs DEF Shapes
<1>3. /\ outcome = "running" /\ ~all /\ page' = page + 1 /\ got' = now
      /\ UNCHANGED <<commandVars, serviceVars, token, asked, total>>
      /\ outcome' = IF HasMore(items) THEN "running" ELSE "complete"
  BY DEF ShowPage
<1>4. \/ outcome' = "running"
      \/ outcome' = "complete" /\ ~all /\ Cardinality(list) <= page * limit
  BY <1>2, <1>3 DEF HasMore
<1>5. total' \in Seq(Nat)
  BY <1>1, <1>3 DEF Shapes
<1> QED BY <1>3, <1>4, <1>5, PageStep

LEMMA CallFailsKeeps ==
  ASSUME ReadingInv, CallFails
  PROVE  ReadingInv'
<1>1. Shapes
  BY DEF ReadingInv
<1>2. page' \in Nat \ {0} /\ token' \in Nat /\ total' \in Seq(Nat) /\ got' = <<>> /\ outcome' = "CallFailed"
  BY <1>1 DEF CallFails, Shapes
<1>3. UNCHANGED <<commandVars, serviceVars>>
  BY DEF CallFails
<1> QED BY <1>2, <1>3, GivenUp

LEMMA ListChangesKeeps ==
  ASSUME ReadingInv, ListChanges
  PROVE  ReadingInv'
<1>1. /\ outcome = "running" /\ outcome' = outcome /\ mode' = mode /\ all' = all /\ limit' = limit
      /\ page' = page /\ token' = token /\ total' = total /\ got' = got
  BY DEF ListChanges, commandVars
<1>2. PICK i \in Items :
        \/ i \notin list /\ list' = list \cup {i} /\ added' = added \cup {i} /\ removed' = removed
        \/ i \in list /\ list' = list \ {i} /\ removed' = removed \cup {i} /\ added' = added
  BY DEF ListChanges, ReadingInv, Shapes
<1>3. list' \subseteq Items /\ ~Stays' /\ list' \ added' \subseteq list \ added
      /\ list \cup removed \subseteq list' \cup removed'
  BY <1>2 DEF ReadingInv, Shapes, Stays
<1>4. Shown' = Shown /\ Once(got)' = Once(got)
  BY <1>1 DEF Shown, Once
<1>5. Shapes' /\ Came' /\ IdsOnce'
  BY <1>1, <1>3, <1>4 DEF ReadingInv, Shapes, Came, IdsOnce
<1>6. PageProgress' /\ AllRead'
  BY <1>1, <1>3 DEF PageProgress, AllRead
<1>7. TokenProgress'
  BY <1>1, <1>3, <1>4 DEF ReadingInv, TokenProgress
<1> QED BY <1>5, <1>6, <1>7 DEF ReadingInv

-----------------------------------------------------------------------------
(* By token.                                                               *)

\* Whatever the service answers to a token, it is the items from there up to
\* the token it answers with, or the rest.
LEMMA TokenPageIs ==
  ASSUME Shapes, NEW n \in Nat, NEW items, items = TokenPage(n).items, NEW next, next = TokenPage(n).next
  PROVE  /\ items \in Seq(list) /\ Once(items) /\ next \in Nat
         /\ \A i \in ToSet(items) : token <= i
         /\ next # NoToken => /\ \A i \in ToSet(items) : i < next
                              /\ token <= next
                              /\ \A i \in list : token <= i /\ i < next => i \in ToSet(items)
         /\ next = NoToken => \A i \in list : token <= i => i \in ToSet(items)
<1> DEFINE F == From(token)
           position == IF items = <<>> THEN Max({token, 1}) ELSE Last(items) + 1
           largest == IF token <= 1 THEN 1 ELSE token
<1>1. /\ items = Piece(InOrder(F), 1, n)
      /\ next = IF From(position) = {} THEN NoToken ELSE position
  BY DEF TokenPage
<1>2. token \in Nat /\ list \subseteq Nat /\ IsFiniteSet(list) /\ \A i \in list : 1 <= i
  <2>1. list \subseteq Nat \ {0} /\ token \in Nat
    BY CollectionAssumption DEF Shapes
  <2> QED BY <2>1, ListIs DEF Shapes
<1>3. Max({token, 1}) = largest
  BY <1>2 DEF Max
<1>4. F \subseteq list /\ \A i \in list : i \in F <=> token <= i
  BY <1>2 DEF From
<1>5. F \subseteq Nat /\ IsFiniteSet(F)
  BY <1>2, <1>4, FS_Subset
<1> HIDE DEF F
<1>6. /\ items \in Seq(F)
      /\ \A k, m \in DOMAIN items : k < m => items[k] < items[m]
      /\ \A i : i \in ToSet(items) <=> i \in F /\ 1 <= Rank(F, i) + 1 /\ Rank(F, i) + 1 <= n
  <2> DEFINE a == 1
  <2>1. a \in Nat \ {0}
    OBVIOUS
  <2> HIDE DEF a
  <2>2. LET p == Piece(InOrder(F), a, n) IN
        /\ p \in Seq(F)
        /\ \A k, m \in DOMAIN p : k < m => p[k] < p[m]
        /\ \A i : i \in ToSet(p) <=> i \in F /\ a <= Rank(F, i) + 1 /\ Rank(F, i) + 1 <= n
    BY ONLY <1>5, <2>1, n \in Nat, PieceOf
  <2> QED BY <1>1, <2>2 DEF a
<1>7. items \in Seq(list) /\ Once(items) /\ DOMAIN items = 1..Len(items) /\ Len(items) \in Nat
  <2>1. items \in Seq(list)
    BY <1>4, <1>6, SeqWider
  <2>2. Once(items)
    BY <1>5, <1>6, Increasing
  <2> QED BY <2>1, <2>2
\* The next position is after the items, and all before it are among them.
<1>8. /\ position \in Nat /\ 1 <= position /\ token <= position
      /\ \A i \in F : i < position <=> i \in ToSet(items)
  <2>1. CASE items = <<>>
    <3>1. position = largest
      BY <1>3, <2>1
    <3>2. ToSet(items) = {}
      BY <2>1 DEF ToSet
    <3>3. \A i \in F : token <= i /\ 1 <= i /\ i \in Nat
      BY <1>2, <1>4
    <3>4. \A i \in F : ~(i < largest)
      BY <1>2, <3>3
    <3>5. largest \in Nat /\ 1 <= largest /\ token <= largest
      BY <1>2
    <3> HIDE DEF largest, position
    <3> QED BY <3>1, <3>2, <3>4, <3>5
  <2>2. CASE items # <<>>
    <3> DEFINE last == items[Len(items)]
    <3>1. Len(items) \in 1..Len(items) /\ Last(items) = last
      BY <1>6, <1>7, <2>2 DEF Last
    <3>2. last \in ToSet(items)
      BY <1>7, <3>1 DEF ToSet
    <3>3. last \in F /\ last \in Nat /\ token <= last
      BY <1>4, <1>5, <1>6, <3>2
    <3>4. position = last + 1
      BY <2>2, <3>1
    <3>5. \A i \in ToSet(items) : i <= last
      <4> SUFFICES ASSUME NEW k \in 1..Len(items) PROVE items[k] <= last
        BY <1>7 DEF ToSet
      <4>1. k = Len(items) \/ k < Len(items)
        BY <1>7
      <4>2. items[k] \in ToSet(items)
        BY <1>7 DEF ToSet
      <4>3. items[k] \in Nat
        BY <1>5, <1>6, <4>2
      <4>4. k < Len(items) => items[k] < last
        BY <1>6, <1>7, <3>1
      <4> HIDE DEF last
      <4>5. k = Len(items) => items[k] = last
        BY DEF last
      <4> QED BY <3>3, <4>1, <4>3, <4>4, <4>5
    <3> HIDE DEF last
    <3>6. \A i \in F : i <= last => i \in ToSet(items)
      <4> SUFFICES ASSUME NEW i \in F, i <= last PROVE i \in ToSet(items)
        OBVIOUS
      <4>1. Rank(F, last) \in Nat /\ Rank(F, last) + 1 <= n
        BY <1>5, <1>6, <3>2, <3>3, RankBound
      <4>2. Rank(F, i) \in Nat
        BY <1>5, RankBound
      <4>3. i < last => Rank(F, i) < Rank(F, last)
        BY <1>5, <3>3, RankGrows
      <4>4. i = last \/ i < last
        BY <1>5, <3>3
      <4>5. Rank(F, i) + 1 <= n /\ 1 <= Rank(F, i) + 1
        BY <4>1, <4>2, <4>3, <4>4
      <4> QED BY <1>6, <4>5
    <3>7. \A i \in F : i < last + 1 <=> i <= last
      BY <1>5, <3>3
    <3>8. last + 1 \in Nat /\ 1 <= last + 1 /\ token <= last + 1
      BY <1>2, <3>3
    <3>9. \A i \in F : i < position <=> i \in ToSet(items)
      BY <3>4, <3>5, <3>6, <3>7
    <3> QED BY <3>4, <3>8, <3>9
  <2> QED BY <2>1, <2>2
<1>9. \A i \in ToSet(items) : i \in F /\ token <= i /\ i < position
  BY <1>4, <1>6, <1>8
<1> HIDE DEF position
<1>10. next # NoToken => next = position
  BY <1>1
<1>11. next = NoToken => \A i \in list : i < position
  <2> SUFFICES ASSUME next = NoToken PROVE \A i \in list : i < position
    OBVIOUS
  <2>1. From(position) = {}
    BY <1>1, <1>8 DEF NoToken
  <2>2. \A i \in list : ~(i >= position)
    BY <2>1 DEF From
  <2> QED BY <1>2, <1>8, <2>2
<1>12. next \in Nat
  BY <1>1, <1>8 DEF NoToken
<1>13. next # NoToken => /\ \A i \in ToSet(items) : i < next
                         /\ token <= next
                         /\ \A i \in list : token <= i /\ i < next => i \in ToSet(items)
  BY <1>4, <1>8, <1>9, <1>10
<1>14. next = NoToken => \A i \in list : token <= i => i \in ToSet(items)
  BY <1>4, <1>8, <1>11
<1> QED BY <1>7, <1>9, <1>12, <1>13, <1>14

LEMMA TokenStep ==
  ASSUME ReadingInv, mode = "token", outcome = "running", NEW n \in Nat,
         UNCHANGED <<commandVars, serviceVars, page, total>>,
         token' = TokenPage(n).next, got' = got \o TokenPage(n).items,
         outcome' = IF token' = NoToken THEN "complete" ELSE "running"
  PROVE  ReadingInv'
<1> DEFINE items == TokenPage(n).items
           next == TokenPage(n).next
<1>0. /\ items = TokenPage(n).items /\ next = TokenPage(n).next
      /\ token' = next /\ got' = got \o items
      /\ outcome' = IF next = NoToken THEN "complete" ELSE "running"
  OBVIOUS
<1> HIDE DEF items, next
<1>1. Shapes /\ Came /\ Once(got) /\ (\A i \in Shown : i < token) /\ \A i \in list \ added : i < token => i \in Shown
  BY DEF ReadingInv, TokenProgress
<1>2. /\ items \in Seq(list) /\ Once(items) /\ next \in Nat
      /\ \A i \in ToSet(items) : token <= i
      /\ next # NoToken => /\ \A i \in ToSet(items) : i < next
                           /\ token <= next
                           /\ \A i \in list : token <= i /\ i < next => i \in ToSet(items)
      /\ next = NoToken => \A i \in list : token <= i => i \in ToSet(items)
  BY <1>0, <1>1, TokenPageIs
<1>3. /\ mode' = mode /\ all' = all /\ limit' = limit /\ list' = list /\ added' = added /\ removed' = removed
      /\ page' = page /\ total' = total
  BY DEF commandVars, serviceVars
<1>4. items \in Seq(Items) /\ got \in Seq(Items) /\ token \in Nat /\ list \subseteq Nat /\ ToSet(items) \subseteq list
  <2>1. items \in Seq(Items)
    BY <1>1, <1>2, SeqWider DEF Shapes
  <2>2. ToSet(items) \subseteq list
    BY <1>2 DEF ToSet
  <2> QED BY <1>1, <2>1, <2>2, ListIs DEF Shapes
<1>5. Shown \subseteq Nat
  <2>1. Shown \subseteq Items
    BY <1>4, JoinIs DEF Shown
  <2> QED BY <2>1, CollectionAssumption
<1>6. got' \in Seq(Items) /\ Shown' = Shown \cup ToSet(items)
  BY <1>0, <1>4, JoinIs DEF Shown
<1>7. Once(got)'
  <2>1. ToSet(got) \cap ToSet(items) \subseteq {}
    BY <1>1, <1>2, <1>4, <1>5 DEF Shown
  <2>2. Once(got \o items)
    BY <1>1, <1>2, <1>4, <2>1, JoinedOnce
  <2> QED BY <1>0, <2>2 DEF Once
<1>8. Shapes' /\ Came' /\ IdsOnce'
  <2>1. Shapes'
    BY <1>0, <1>1, <1>2, <1>3, <1>6 DEF Shapes
  <2>2. Came'
    BY <1>1, <1>3, <1>4, <1>6 DEF Came
  <2>3. IdsOnce'
    BY <1>7 DEF IdsOnce, Once
  <2> QED BY <2>1, <2>2, <2>3
<1>9. PageProgress'
  BY <1>3 DEF PageProgress
<1>10. TokenProgress'
  <2> SUFFICES ASSUME next # NoToken
               PROVE  (\A i \in Shown' : i < next) /\ \A i \in list \ added : i < next => i \in Shown'
    BY <1>0, <1>3, <1>7 DEF TokenProgress
  <2>1. \A i \in Shown' : i < next
    BY <1>1, <1>2, <1>4, <1>5, <1>6
  <2>2. \A i \in list \ added : i < next => i \in Shown'
    BY <1>1, <1>2, <1>4, <1>6
  <2> QED BY <2>1, <2>2
<1>11. AllRead'
  <2> SUFFICES ASSUME next = NoToken PROVE list \ added \subseteq Shown'
    BY <1>0, <1>3, <1>7 DEF AllRead
  <2> SUFFICES ASSUME NEW i \in list \ added PROVE i \in Shown'
    OBVIOUS
  <2>1. i < token \/ token <= i
    BY <1>4
  <2>2. i < token => i \in Shown
    BY <1>1
  <2>3. token <= i => i \in ToSet(items)
    BY <1>2
  <2> QED BY <1>6, <2>1, <2>2, <2>3
<1> QED BY <1>8, <1>9, <1>10, <1>11 DEF ReadingInv

LEMMA AllTokenPageKeeps ==
  ASSUME ReadingInv, AllTokenPage
  PROVE  ReadingInv'
<1>1. Shapes /\ limit \in Nat
  BY DEF ReadingInv, Shapes
<1>2. /\ outcome = "running" /\ mode = "token" /\ UNCHANGED <<commandVars, serviceVars, page, total>>
  BY DEF AllTokenPage
<1>3. PICK n \in 0..limit :
        \/ outcome' = "IncompletePagination" /\ got' = <<>> /\ token' = token
        \/ /\ token' = TokenPage(n).next /\ got' = got \o TokenPage(n).items
           /\ outcome' = IF token' = NoToken THEN "complete" ELSE "running"
  BY DEF AllTokenPage, TokenPages
<1>4. CASE outcome' = "IncompletePagination" /\ got' = <<>> /\ token' = token
  <2>1. page' \in Nat \ {0} /\ token' \in Nat /\ total' \in Seq(Nat)
    BY <1>1, <1>2, <1>4 DEF Shapes
  <2> QED BY <1>2, <1>4, <2>1, GivenUp
<1>5. CASE /\ token' = TokenPage(n).next /\ got' = got \o TokenPage(n).items
           /\ outcome' = IF token' = NoToken THEN "complete" ELSE "running"
  <2>1. n \in Nat
    BY <1>1
  <2> QED BY <1>2, <1>5, <2>1, TokenStep
<1> QED BY <1>3, <1>4, <1>5

LEMMA ShowTokenKeeps ==
  ASSUME ReadingInv, ShowPage, mode = "token"
  PROVE  ReadingInv'
<1>1. Shapes /\ limit \in Nat
  BY DEF ReadingInv, Shapes
<1>2. outcome = "running" /\ UNCHANGED <<commandVars, serviceVars, page, total>>
  BY DEF ShowPage
<1>3. PICK n \in 0..limit :
        /\ token' = TokenPage(n).next /\ got' = got \o TokenPage(n).items
        /\ outcome' = IF token' = NoToken THEN "complete" ELSE "running"
  BY DEF ShowPage, TokenPages
<1>4. n \in Nat
  BY <1>1
<1> QED BY <1>2, <1>3, <1>4, TokenStep

-----------------------------------------------------------------------------
(* What the reader of the pages is told.                                   *)

LEMMA WholeAtTheEnd ==
  ASSUME ReadingInv
  PROVE  UnchangedIsWhole
<1> SUFFICES ASSUME outcome = "complete", Stays PROVE Shown = list /\ Len(got) = Cardinality(list)
  BY DEF UnchangedIsWhole, Stays
<1>1. Shown \subseteq list
  BY DEF ReadingInv, Came, Stays
<1>2. Once(got) /\ list \subseteq Shown
  <2>1. CASE mode = "token"
    BY <2>1 DEF ReadingInv, AllRead, Stays
  <2>2. CASE mode = "page"
    BY <2>2 DEF ReadingInv, AllRead
  <2> QED BY <2>1, <2>2 DEF ReadingInv, Shapes
<1>3. Cardinality(ToSet(got)) = Len(got)
  BY <1>2, OnceCounts DEF ReadingInv, Shapes
<1>4. Shown = list /\ ToSet(got) = Shown
  BY <1>1, <1>2 DEF Shown
<1> QED BY <1>3, <1>4

\* Two sets of one size miss as many of one another.
LEMMA AsManyMissed ==
  ASSUME NEW A, IsFiniteSet(A), NEW B, IsFiniteSet(B), Cardinality(A) = Cardinality(B)
  PROVE  /\ IsFiniteSet(A \ B) /\ IsFiniteSet(B \ A)
         /\ Cardinality(A \ B) = Cardinality(B \ A)
<1>1. /\ IsFiniteSet(A \ B) /\ Cardinality(A \ B) = Cardinality(A) - Cardinality(A \cap B)
  BY FS_Difference
<1>2. /\ IsFiniteSet(B \ A) /\ Cardinality(B \ A) = Cardinality(B) - Cardinality(B \cap A)
  BY FS_Difference
<1>3. A \cap B = B \cap A
  OBVIOUS
<1> QED BY <1>1, <1>2, <1>3

LEMMA HonestAtTheEnd ==
  ASSUME ReadingInv
  PROVE  AllIsHonest
<1> SUFFICES ASSUME outcome = "complete", all
             PROVE  /\ \A m, n \in DOMAIN got : m # n /\ got[m] = got[n] => got[m] \in Unnamed
                    /\ mode = "token" => (list \ added) \ Shown = {}
                    /\ mode = "page" /\ Shown \cap Unnamed = {} =>
                         Cardinality((list \ added) \ Shown) <= Cardinality(Shown \cap removed)
  BY DEF AllIsHonest
<1>1. \A m, n \in DOMAIN got : m # n /\ got[m] = got[n] => got[m] \in Unnamed
  BY DEF ReadingInv, IdsOnce
<1>2. mode = "token" => (list \ added) \ Shown = {}
  BY DEF ReadingInv, AllRead
<1>3. ASSUME mode = "page", Shown \cap Unnamed = {}
      PROVE  Cardinality((list \ added) \ Shown) <= Cardinality(Shown \cap removed)
  <2> DEFINE missed == (list \ added) \ Shown
             gone == Shown \cap removed
  <2>1. Once(got)
    <3>1. \A m \in DOMAIN got : got[m] \in Shown
      BY DEF Shown, ToSet
    <3> QED BY <1>1, <1>3, <3>1 DEF Once
  <2>2. IsFiniteSet(Shown) /\ Cardinality(Shown) = Len(got)
    BY <2>1, OnceCounts DEF Shown, ReadingInv, Shapes
  <2>3. Len(got) = Cardinality(list)
    BY <1>3 DEF ReadingInv, AllRead
  <2>4. IsFiniteSet(list)
    BY ListIs DEF ReadingInv, Shapes
  <2>5. IsFiniteSet(list \ Shown) /\ IsFiniteSet(Shown \ list) /\ Cardinality(list \ Shown) = Cardinality(Shown \ list)
    BY <2>2, <2>3, <2>4, AsManyMissed
  <2>6. missed \in SUBSET (list \ Shown)
    OBVIOUS
  <2>7. Shown \ list \in SUBSET gone
    BY DEF ReadingInv, Came
  <2>8. IsFiniteSet(gone)
    BY <2>2, FS_Subset
  <2> HIDE DEF missed, gone
  <2>9. /\ Cardinality(missed) \in Nat /\ Cardinality(list \ Shown) \in Nat
        /\ Cardinality(missed) <= Cardinality(list \ Shown)
    BY <2>5, <2>6, FS_Subset, FS_CardinalityType
  <2>10. /\ Cardinality(gone) \in Nat /\ Cardinality(Shown \ list) \in Nat
         /\ Cardinality(Shown \ list) <= Cardinality(gone)
    BY <2>7, <2>8, FS_Subset, FS_CardinalityType
  <2>11. Cardinality(missed) <= Cardinality(gone)
    BY <2>5, <2>9, <2>10
  <2> QED BY <2>11 DEF missed, gone
<1> QED BY <1>1, <1>2, <1>3

PagesInv == about = "pages" => ReadingInv

\* A list that does not change is shown whole, each item once, whatever the
\* page sizes and the answers to tokens; of one that others change, --all shows
\* no id twice, misses nothing that stayed by token, and by page number no more
\* than it shows of what has gone (runAllProbePages, runAllTokenProbePages,
\* paginationPayload, tokenPaginationPayload).
THEOREM PagesTellAll == ChoiceSpec => []PagesAreHonest
<1>1. ChoiceInit => PagesInv
  <2> SUFFICES ASSUME ChoiceInit, about = "pages" PROVE ReadingInv
    BY DEF PagesInv
  <2>1. StartReading
    BY DEF ChoiceInit, Asks
  <2> QED BY <2>1, StartIs
<1>2. PagesInv /\ [ChoiceNext]_choiceVars => PagesInv'
  <2> SUFFICES ASSUME PagesInv, [ChoiceNext]_choiceVars, about' = "pages" PROVE ReadingInv'
    BY DEF PagesInv
  <2>1. CASE UNCHANGED choiceVars
    <3>1. about' = about /\ UNCHANGED paging
      BY <2>1 DEF choiceVars, asking
    <3>2. ReadingInv
      BY <3>1 DEF PagesInv
    <3> QED BY <3>1, <3>2 DEF paging, ReadingInv, Shapes, Came, IdsOnce, PageProgress, TokenProgress,
               AllRead, Stays, Shown, Once, Rank
  <2>2. CASE ResolveCredential \/ CompareMetadata \/ MatchItems \/ ShowResult
    BY <2>2 DEF ResolveCredential, CompareMetadata, MatchItems, ShowResult, Reply
  <2>3. CASE ReadPages
    <3>1. ReadOn /\ ReadingInv
      BY <2>3 DEF ReadPages, asking, PagesInv
    <3>2. mode \in {"page", "token"}
      BY <3>1 DEF ReadingInv, Shapes
    <3>3. CASE AllPage
      BY <3>1, <3>3, AllPageKeeps
    <3>4. CASE AllTokenPage
      BY <3>1, <3>4, AllTokenPageKeeps
    <3>5. CASE ShowPage
      BY <3>1, <3>2, <3>5, ShowPageKeeps, ShowTokenKeeps
    <3>6. CASE CallFails
      BY <3>1, <3>6, CallFailsKeeps
    <3>7. CASE ListChanges
      BY <3>1, <3>7, ListChangesKeeps
    <3> QED BY <3>1, <3>3, <3>4, <3>5, <3>6, <3>7 DEF ReadOn
  <2> QED BY <2>1, <2>2, <2>3 DEF ChoiceNext
<1>3. PagesInv => PagesAreHonest
  BY WholeAtTheEnd, HonestAtTheEnd DEF PagesInv, PagesAreHonest
<1> QED BY <1>1, <1>2, <1>3, PTL DEF ChoiceSpec

-----------------------------------------------------------------------------
(* The least of a set of natural numbers, and induction by it.             *)

LEMMA LeastNumber ==
  ASSUME NEW T, T \subseteq Nat, T # {}
  PROVE  \E n \in T : \A m \in T : n <= m
<1> DEFINE R == OpToRel(<, Nat)
<1>1. IsWellFoundedOn(R, Nat)
  BY NatLessThanWellFounded
<1>2. \A m, n \in Nat : m < n => <<m, n>> \in R
  BY DEF OpToRel
<1> HIDE DEF R
<1>3. PICK n \in T : \A m \in T : <<m, n>> \notin R
  BY <1>1, WFMin
<1>4. ASSUME NEW m \in T PROVE n <= m
  <2>1. m \in Nat /\ n \in Nat
    OBVIOUS
  <2>2. ~(m < n)
    BY <1>2, <1>3, <2>1
  <2> QED BY <2>1, <2>2
<1> QED BY <1>4

LEMMA Induction ==
  ASSUME NEW T, 0 \in T, \A n \in Nat : n \in T => n + 1 \in T
  PROVE  \A n \in Nat : n \in T
<1> SUFFICES ASSUME Nat \ T # {} PROVE FALSE
  OBVIOUS
<1>1. PICK n \in Nat \ T : \A m \in Nat \ T : n <= m
  BY LeastNumber
<1>2. n # 0 /\ n - 1 \in Nat
  BY <1>1
<1>3. n - 1 \notin Nat \ T
  BY <1>1, <1>2
<1> QED BY <1>2, <1>3, <1>1

-----------------------------------------------------------------------------
(* What is found for each wanted item: the first that fits and is free.    *)

Free(items, fits, found, w) ==
  {i \in Output!Unused(items, {found[v] : v \in 1..(w - 1)}) : <<i, w>> \in fits}
FirstFree(items, fits, found, w) ==
  IF Free(items, fits, found, w) = {} THEN 0 ELSE Output!Min(Free(items, fits, found, w))

LEMMA FreeSame ==
  ASSUME NEW items, NEW fits, NEW w \in Nat, NEW f, NEW g, \A v \in 1..(w - 1) : f[v] = g[v]
  PROVE  FirstFree(items, fits, f, w) = FirstFree(items, fits, g, w)
<1>1. {f[v] : v \in 1..(w - 1)} = {g[v] : v \in 1..(w - 1)}
  OBVIOUS
<1>2. Free(items, fits, f, w) = Free(items, fits, g, w)
  BY <1>1 DEF Free
<1> QED BY <1>2 DEF FirstFree

LEMMA FirstFitsIs ==
  ASSUME NEW items, NEW wants, Len(wants) \in Nat, DOMAIN wants = 1..Len(wants), NEW fits
  PROVE  LET found == Output!FirstFits(items, wants, fits) IN
         /\ DOMAIN found = 1..Len(wants)
         /\ \A w \in 1..Len(wants) : found[w] = FirstFree(items, fits, found, w)
<1> DEFINE n == Len(wants)
           Upto(h, k) == \A w \in 1..k : h[w] = FirstFree(items, fits, h, w)
           T == {k \in Nat : \E h : Upto(h, k)}
           First == CHOOSE f : f = [w \in 1..n |-> FirstFree(items, fits, f, w)]
<1>1. 0 \in T
  <2>1. Upto(<<>>, 0)
    OBVIOUS
  <2> QED BY <2>1
<1>2. ASSUME NEW k \in Nat, k \in T PROVE k + 1 \in T
  <2>1. PICK h : Upto(h, k)
    BY <1>2
  <2> DEFINE g == [w \in 1..(k + 1) |-> IF w = k + 1 THEN FirstFree(items, fits, h, k + 1) ELSE h[w]]
  <2>2. ASSUME NEW w \in 1..(k + 1) PROVE g[w] = FirstFree(items, fits, g, w)
    <3>1. w \in Nat /\ \A v \in 1..(w - 1) : g[v] = h[v]
      OBVIOUS
    <3>2. FirstFree(items, fits, g, w) = FirstFree(items, fits, h, w)
      <4> HIDE DEF g
      <4> QED BY <3>1, FreeSame
    <3>3. CASE w = k + 1
      BY <3>2, <3>3
    <3>4. CASE w # k + 1
      <4>1. w \in 1..k /\ g[w] = h[w]
        BY <3>4
      <4> QED BY <2>1, <3>2, <4>1
    <3> QED BY <3>3, <3>4
  <2> HIDE DEF g
  <2>3. Upto(g, k + 1)
    BY <2>2
  <2> QED BY <2>3
<1>3. \E h : Upto(h, n)
  <2> HIDE DEF T
  <2>1. n \in T
    BY <1>1, <1>2, Induction
  <2> QED BY <2>1 DEF T
<1>4. PICK h : Upto(h, n)
  BY <1>3
<1> DEFINE f == [w \in 1..n |-> h[w]]
<1>5. f = [w \in 1..n |-> FirstFree(items, fits, f, w)]
  <2> SUFFICES ASSUME NEW w \in 1..n PROVE h[w] = FirstFree(items, fits, f, w)
    OBVIOUS
  <2>1. w \in Nat /\ \A v \in 1..(w - 1) : f[v] = h[v]
    OBVIOUS
  <2>2. FirstFree(items, fits, f, w) = FirstFree(items, fits, h, w)
    <3> HIDE DEF f
    <3> QED BY <2>1, FreeSame
  <2> QED BY <1>4, <2>2
<1>6. Output!FirstFits(items, wants, fits) = First
  BY DEF Output!FirstFits, FirstFree, Free
<1>7. First = [w \in 1..n |-> FirstFree(items, fits, First, w)]
  <2>1. \E g : g = [w \in 1..n |-> FirstFree(items, fits, g, w)]
    BY <1>5
  <2> QED BY <2>1
<1> HIDE DEF First
<1> QED BY <1>6, <1>7

\* Each found item fits, none is found twice, and nothing is found only when
\* all that fit have been.
Matching(found, fits, m, n) ==
  /\ DOMAIN found = 1..n
  /\ \A w \in 1..n : found[w] \in 0..m
  /\ \A w \in 1..n : found[w] # 0 => <<found[w], w>> \in fits
  /\ \A v, w \in 1..n : v # w /\ found[v] = found[w] => found[v] = 0
  /\ \A w \in 1..n : found[w] = 0 => \A i \in 1..m : <<i, w>> \in fits => \E v \in 1..(w - 1) : found[v] = i

LEMMA Matched ==
  ASSUME NEW S, NEW items \in Seq(S), NEW R, NEW wants \in Seq(R), NEW fits
  PROVE  Matching(Output!FirstFits(items, wants, fits), fits, Len(items), Len(wants))
<1> DEFINE m == Len(items)
           n == Len(wants)
           found == Output!FirstFits(items, wants, fits)
<1>1. m \in Nat /\ n \in Nat /\ DOMAIN items = 1..m /\ DOMAIN wants = 1..n
  OBVIOUS
<1>2. DOMAIN found = 1..n /\ \A w \in 1..n : found[w] = FirstFree(items, fits, found, w)
  BY <1>1, FirstFitsIs
<1> HIDE DEF m, n, found
<1>3. \A w \in 1..n : Free(items, fits, found, w) =
        {i \in 1..m : (\A v \in 1..(w - 1) : found[v] # i) /\ <<i, w>> \in fits}
  BY <1>1 DEF Free, Output!Unused
<1>4. \A F : F \subseteq 1..m /\ F # {} => Output!Min(F) \in F
  <2> SUFFICES ASSUME NEW F, F \subseteq 1..m, F # {} PROVE Output!Min(F) \in F
    OBVIOUS
  <2>1. F \subseteq Nat
    BY <1>1
  <2>2. \E i \in F : \A j \in F : i <= j
    BY <2>1, LeastNumber
  <2> QED BY <2>2 DEF Output!Min
<1>5. \A w \in 1..n :
        \/ found[w] = 0 /\ Free(items, fits, found, w) = {}
        \/ found[w] \in Free(items, fits, found, w)
  BY <1>2, <1>3, <1>4 DEF FirstFree
<1>6. \A w \in 1..n : found[w] # 0 =>
        found[w] \in 1..m /\ <<found[w], w>> \in fits /\ \A v \in 1..(w - 1) : found[v] # found[w]
  BY <1>3, <1>5
<1>7. ASSUME NEW v \in 1..n, NEW w \in 1..n, v # w, found[v] = found[w] PROVE found[v] = 0
  <2>1. v \in 1..(w - 1) \/ w \in 1..(v - 1)
    BY <1>1, <1>7
  <2> QED BY <1>6, <1>7, <2>1
<1>8. ASSUME NEW w \in 1..n, found[w] = 0, NEW i \in 1..m, <<i, w>> \in fits
      PROVE  \E v \in 1..(w - 1) : found[v] = i
  <2>1. found[w] \notin Free(items, fits, found, w)
    <3>1. Free(items, fits, found, w) =
            {j \in 1..m : (\A v \in 1..(w - 1) : found[v] # j) /\ <<j, w>> \in fits}
      BY <1>3
    <3>2. Free(items, fits, found, w) \subseteq 1..m
      BY <3>1
    <3>3. 0 \notin 1..m
      BY <1>1
    <3> QED BY <1>8, <3>2, <3>3
  <2>2. i \notin Free(items, fits, found, w)
    BY <1>5, <2>1
  <2> QED BY <1>3, <1>8, <2>2
<1>9. ASSUME NEW w \in 1..n PROVE found[w] \in 0..m
  <2>1. \A i \in 1..m : i \in 0..m
    BY <1>1
  <2>2. 0 \in 0..m
    BY <1>1
  <2> QED BY <1>6, <2>1, <2>2
<1>10. Matching(found, fits, m, n)
  BY <1>2, <1>6, <1>7, <1>8, <1>9 DEF Matching
<1> QED BY <1>10 DEF found, m, n

-----------------------------------------------------------------------------
(* A wait for added items.                                                 *)

LEMMA HitHasItsItems ==
  ASSUME NEW S, NEW items \in Seq(S), NEW R, NEW wants \in Seq(R), NEW fields,
         Output!captureItemsMatched(items, wants, fields)
  PROVE  Output!Assignment(items, wants, fields) /\ Output!captureItemsAnyMatched(items, wants, fields)
<1> DEFINE fits == {p \in (DOMAIN items) \X (DOMAIN wants) : Output!captureItemMatches(items[p[1]], wants[p[2]], fields)}
           found == Output!FirstFits(items, wants, fits)
           m == Len(items)
           n == Len(wants)
<1>1. m \in Nat /\ n \in Nat /\ DOMAIN items = 1..m /\ DOMAIN wants = 1..n
  OBVIOUS
<1>2. Matching(found, fits, m, n)
  <2> HIDE DEF fits
  <2> QED BY Matched
<1>3. wants # <<>> /\ 0 \notin Output!ToSet(found)
  BY DEF Output!captureItemsMatched
<1>4. \A i \in 1..m, w \in 1..n : <<i, w>> \in fits => Output!captureItemMatches(items[i], wants[w], fields)
  OBVIOUS
<1> HIDE DEF fits, found
<1>5. \A w \in 1..n : found[w] # 0
  BY <1>2, <1>3 DEF Matching, Output!ToSet
<1>6. ASSUME NEW w \in 1..n
      PROVE  found[w] \in 1..m /\ Output!captureItemMatches(items[found[w]], wants[w], fields)
  <2>1. found[w] \in 0..m /\ found[w] # 0 /\ <<found[w], w>> \in fits
    BY <1>2, <1>5 DEF Matching
  <2>2. found[w] \in 1..m
    BY <1>1, <2>1
  <2> QED BY <1>4, <2>1, <2>2
<1>7. Output!Assignment(items, wants, fields)
  <2> DEFINE f == [w \in 1..n |-> found[w]]
  <2>1. f \in [DOMAIN wants -> DOMAIN items]
    BY <1>1, <1>6
  <2>2. Output!IsInjective(f)
    <3>1. \A v, w \in 1..n : found[v] = found[w] => v = w
      BY <1>2, <1>5 DEF Matching
    <3> QED BY <3>1 DEF Output!IsInjective
  <2>3. \A w \in DOMAIN wants : Output!captureItemMatches(items[f[w]], wants[w], fields)
    BY <1>1, <1>6
  <2> HIDE DEF f
  <2> QED BY <2>1, <2>2, <2>3 DEF Output!Assignment
<1>8. 1 \in 1..n
  BY <1>1, <1>3
<1> QED BY <1>1, <1>6, <1>7, <1>8 DEF Output!captureItemsAnyMatched

\* Wanted items that name the same fields and fit one item fit the same items.
LEMMA FitAlike ==
  ASSUME NEW items, NEW fields, NEW v, NEW w,
         {f \in fields : Output!HasText(v, f)} = {f \in fields : Output!HasText(w, f)},
         NEW i \in DOMAIN items, Output!captureItemMatches(items[i], v, fields),
         Output!captureItemMatches(items[i], w, fields),
         NEW j \in DOMAIN items, Output!captureItemMatches(items[j], v, fields)
  PROVE  Output!captureItemMatches(items[j], w, fields)
<1>1. \A f \in fields : Output!HasText(v, f) <=> Output!HasText(w, f)
  OBVIOUS
<1> QED BY <1>1 DEF Output!captureItemMatches, Output!Agree

\* Wanted items that fit the same take each other's; there are too few only if
\* there is none to assign.
LEMMA HitWhenThere ==
  ASSUME NEW S, NEW items \in Seq(S), NEW R, NEW wants \in Seq(R), NEW fields, wants # <<>>,
         Output!Assignment(items, wants, fields), Output!SameFields(wants, fields)
  PROVE  Output!captureItemsMatched(items, wants, fields)
<1> DEFINE fits == {p \in (DOMAIN items) \X (DOMAIN wants) : Output!captureItemMatches(items[p[1]], wants[p[2]], fields)}
           found == Output!FirstFits(items, wants, fits)
           m == Len(items)
           n == Len(wants)
<1>1. m \in Nat /\ n \in Nat /\ DOMAIN items = 1..m /\ DOMAIN wants = 1..n /\ 1 \in 1..n
  OBVIOUS
<1>2. Matching(found, fits, m, n)
  <2> HIDE DEF fits
  <2> QED BY Matched
<1>3. \A i \in 1..m, w \in 1..n : <<i, w>> \in fits <=> Output!captureItemMatches(items[i], wants[w], fields)
  OBVIOUS
<1>4. PICK f \in [1..n -> 1..m] :
        Output!IsInjective(f) /\ \A w \in 1..n : Output!captureItemMatches(items[f[w]], wants[w], fields)
  BY <1>1 DEF Output!Assignment
<1>5. \A v, w \in 1..n : f[v] = f[w] => v = w
  BY <1>4 DEF Output!IsInjective
<1>6. \A v, w \in 1..n : {x \in fields : Output!HasText(wants[v], x)} = {x \in fields : Output!HasText(wants[w], x)}
  BY <1>1 DEF Output!SameFields
<1>7. wants # <<>> /\ items # <<>>
  <2>1. f[1] \in 1..m
    BY <1>1, <1>4
  <2> QED BY <1>1, <2>1
<1> SUFFICES ASSUME NEW w \in 1..n, found[w] = 0 PROVE FALSE
  <2>1. DOMAIN found = 1..n
    BY <1>2 DEF Matching
  <2> HIDE DEF found
  <2>2. (\A w \in 1..n : found[w] # 0) => 0 \notin Output!ToSet(found)
    BY <2>1 DEF Output!ToSet
  <2> QED BY <1>7, <2>2 DEF Output!captureItemsMatched, found
<1> HIDE DEF fits, found
<1> DEFINE M == {i \in 1..m : <<i, w>> \in fits}
           alike == {v \in 1..n : \A i \in 1..m : <<i, v>> \in fits <=> <<i, w>> \in fits}
<1>8. ASSUME NEW v \in 1..n, NEW i \in 1..m, <<i, v>> \in fits, <<i, w>> \in fits PROVE v \in alike
  <2> SUFFICES ASSUME NEW j \in 1..m PROVE <<j, v>> \in fits <=> <<j, w>> \in fits
    OBVIOUS
  <2>1. Output!captureItemMatches(items[i], wants[v], fields) /\ Output!captureItemMatches(items[i], wants[w], fields)
    BY <1>3, <1>8
  <2>2. Output!captureItemMatches(items[j], wants[v], fields) => Output!captureItemMatches(items[j], wants[w], fields)
    BY <1>1, <1>6, <2>1, FitAlike
  <2>3. Output!captureItemMatches(items[j], wants[w], fields) => Output!captureItemMatches(items[j], wants[v], fields)
    BY <1>1, <1>6, <2>1, FitAlike
  <2> QED BY <1>3, <2>2, <2>3
<1>9. IsFiniteSet(1..m) /\ IsFiniteSet(1..n)
  BY <1>1, FS_Interval
<1>10. M \subseteq 1..m /\ alike \subseteq 1..n /\ w \in alike
  OBVIOUS
<1>11. IsFiniteSet(M) /\ IsFiniteSet(alike)
  BY <1>9, <1>10, FS_Subset
\* There is an item for each of those alike.
<1>12. Cardinality(alike) <= Cardinality(M)
  <2> DEFINE g == [v \in alike |-> f[v]]
  <2>1. \A v \in alike : f[v] \in M
    <3> SUFFICES ASSUME NEW v \in alike PROVE f[v] \in M
      OBVIOUS
    <3>1. f[v] \in 1..m /\ v \in 1..n
      BY <1>4
    <3>2. <<f[v], v>> \in fits
      BY <1>3, <1>4, <3>1
    <3> QED BY <3>1, <3>2
  <2>2. g \in Injection(alike, M)
    <3>1. g \in [alike -> M]
      BY <2>1
    <3>2. \A u, v \in alike : g[u] = g[v] => u = v
      BY <1>5, <1>10
    <3> QED BY <3>1, <3>2 DEF Injection, IsInjective
  <2> HIDE DEF g, M, alike
  <2> QED BY <1>11, <2>2, FS_Injection
\* But each is taken by another of them.
<1>13. Cardinality(M) < Cardinality(alike)
  <2> DEFINE others == {v \in alike \ {w} : found[v] \in M}
             h == [v \in others |-> found[v]]
  <2>1. \A i \in M : \E v \in others : found[v] = i
    <3> SUFFICES ASSUME NEW i \in M PROVE \E v \in others : found[v] = i
      OBVIOUS
    <3>1. \E v \in 1..(w - 1) : found[v] = i
      BY <1>2 DEF Matching
    <3>2. PICK v \in 1..(w - 1) : found[v] = i
      BY <3>1
    <3>3. v \in 1..n /\ v # w /\ i # 0 /\ i \in 1..m
      BY <1>1
    <3>4. <<i, v>> \in fits /\ <<i, w>> \in fits
      BY <1>2, <3>2, <3>3 DEF Matching
    <3>5. v \in alike
      BY <1>8, <3>3, <3>4
    <3> QED BY <3>2, <3>3, <3>5
  <2>2. h \in Surjection(others, M)
    <3>1. h \in [others -> M]
      OBVIOUS
    <3>2. \A i \in M : \E v \in others : h[v] = i
      BY <2>1
    <3> QED BY <3>1, <3>2 DEF Surjection
  <2>3. others \subseteq alike \ {w}
    OBVIOUS
  <2> HIDE DEF others, h, M, alike
  <2>4. IsFiniteSet(alike \ {w}) /\ Cardinality(alike \ {w}) = Cardinality(alike) - 1
    BY <1>10, <1>11, FS_RemoveElement
  <2>5. IsFiniteSet(others) /\ Cardinality(others) <= Cardinality(alike \ {w})
    BY <2>3, <2>4, FS_Subset
  <2>6. Cardinality(M) <= Cardinality(others)
    BY <2>2, <2>5, FS_Surjection
  <2>7. Cardinality(M) \in Nat /\ Cardinality(others) \in Nat /\ Cardinality(alike) \in Nat
    BY <1>11, <2>5, FS_CardinalityType
  <2> QED BY <2>4, <2>5, <2>6, <2>7
<1>14. Cardinality(M) \in Nat /\ Cardinality(alike) \in Nat
  BY <1>11, FS_CardinalityType
<1> QED BY <1>12, <1>13, <1>14

-----------------------------------------------------------------------------
(* What is shown of what was found.                                        *)

\* Sequences put together one after the other.
Joined(q, d) == d[0] = <<>> /\ \A k \in 1..Len(q) : d[k] = d[k - 1] \o q[k]

LEMMA FlattenIs ==
  ASSUME NEW S, NEW q \in Seq(Seq(S))
  PROVE  \E d : Joined(q, d) /\ Output!FlattenSeq(q) = d[Len(q)]
<1> DEFINE n == Len(q)
           After(f, k) == IF k = 1 THEN q[k] ELSE f[k - 1] \o q[k]
           Upto(h, k) == \A j \in 1..k : h[j] = After(h, j)
           T == {k \in Nat : \E h : Upto(h, k)}
           flatten == CHOOSE f : f = [k \in 1..n |-> After(f, k)]
<1>0. n \in Nat
  OBVIOUS
<1>1. 0 \in T
  <2>1. Upto(<<>>, 0)
    OBVIOUS
  <2> QED BY <2>1
<1>2. ASSUME NEW k \in Nat, k \in T PROVE k + 1 \in T
  <2>1. PICK h : Upto(h, k)
    BY <1>2
  <2> DEFINE g == [j \in 1..(k + 1) |-> IF j = k + 1 THEN After(h, k + 1) ELSE h[j]]
  <2>2. ASSUME NEW j \in 1..(k + 1) PROVE g[j] = After(g, j)
    <3>1. j # 1 => j - 1 \in 1..k /\ g[j - 1] = h[j - 1]
      OBVIOUS
    <3>2. After(g, j) = After(h, j)
      <4> HIDE DEF g
      <4> QED BY <3>1
    <3>3. CASE j = k + 1
      <4>1. g[j] = After(h, j)
        BY <3>3
      <4> QED BY <3>2, <4>1
    <3>4. CASE j # k + 1
      <4>1. j \in 1..k /\ g[j] = h[j]
        BY <3>4
      <4> QED BY <2>1, <3>2, <4>1
    <3> QED BY <3>3, <3>4
  <2> HIDE DEF g
  <2>3. Upto(g, k + 1)
    BY <2>2
  <2> QED BY <2>3
<1>3. \E h : Upto(h, n)
  <2> HIDE DEF T
  <2>1. n \in T
    BY <1>0, <1>1, <1>2, Induction
  <2> QED BY <2>1 DEF T
<1>4. PICK h : Upto(h, n)
  BY <1>3
<1> DEFINE f == [k \in 1..n |-> h[k]]
<1>5. f = [k \in 1..n |-> After(f, k)]
  <2> SUFFICES ASSUME NEW k \in 1..n PROVE h[k] = After(f, k)
    OBVIOUS
  <2>1. k # 1 => f[k - 1] = h[k - 1]
    OBVIOUS
  <2>2. After(f, k) = After(h, k)
    <3> HIDE DEF f
    <3> QED BY <2>1
  <2> QED BY <1>4, <2>2
<1>6. flatten = [k \in 1..n |-> After(flatten, k)]
  <2>1. \E g : g = [k \in 1..n |-> After(g, k)]
    BY <1>5
  <2> QED BY <2>1
<1>7. Output!FlattenSeq(q) = IF n = 0 THEN q ELSE flatten[n]
  BY DEF Output!FlattenSeq
<1> HIDE DEF flatten
<1> DEFINE d == [k \in 0..n |-> IF k = 0 THEN <<>> ELSE flatten[k]]
<1>8. ASSUME NEW k \in 1..n PROVE d[k] = d[k - 1] \o q[k]
  <2>1. d[k] = After(flatten, k)
    <3>1. k \in 0..n /\ k # 0
      BY <1>0
    <3>2. d[k] = flatten[k]
      BY <3>1
    <3>3. flatten[k] = After(flatten, k)
      <4> HIDE DEF After
      <4> QED BY <1>6
    <3> HIDE DEF d, After
    <3> QED BY <3>2, <3>3
  <2>2. CASE k = 1
    <3>1. d[k - 1] = <<>> /\ q[k] \in Seq(S)
      BY <1>0, <2>2
    <3>2. <<>> \o q[k] = q[k]
      BY <3>1
    <3> QED BY <2>1, <2>2, <3>1, <3>2
  <2>3. CASE k # 1
    <3>1. d[k - 1] = flatten[k - 1]
      BY <1>0, <2>3
    <3> QED BY <2>1, <2>3, <3>1
  <2> QED BY <2>2, <2>3
<1>9. d[0] = <<>>
  BY <1>0
<1>10. Output!FlattenSeq(q) = d[n]
  BY <1>0, <1>7
<1> HIDE DEF d
<1> QED BY <1>8, <1>9, <1>10 DEF Joined

\* If each of them has one item at most, each item comes from another of them.
From1(q, d, k) ==
  \E g \in Injection(1..Len(d), 1..k) : \A i \in 1..Len(d) : q[g[i]] = <<d[i]>>

LEMMA JoinedFrom ==
  ASSUME NEW S, NEW q \in Seq(Seq(S)), \A w \in 1..Len(q) : q[w] = <<>> \/ \E x \in S : q[w] = <<x>>,
         NEW d, Joined(q, d), NEW k \in 0..Len(q)
  PROVE  /\ d[k] \in Seq(S) /\ From1(q, d[k], k)
         /\ (\A w \in 1..Len(q) : q[w] # <<>>) => Len(d[k]) = k
<1> DEFINE n == Len(q)
           Known(j) == /\ d[j] \in Seq(S) /\ From1(q, d[j], j)
                       /\ (\A w \in 1..n : q[w] # <<>>) => Len(d[j]) = j
           T == {j \in Nat : j <= n => Known(j)}
<1>0. n \in Nat
  OBVIOUS
<1>1. 0 \in T
  <2>1. d[0] = <<>>
    BY DEF Joined
  <2> DEFINE g == [i \in 1..0 |-> 0]
  <2>2. g \in Injection(1..0, 1..0) /\ Len(<<>>) = 0
    BY DEF Injection, IsInjective
  <2> HIDE DEF g
  <2>3. From1(q, <<>>, 0)
    BY <2>2 DEF From1
  <2>4. <<>> \in Seq(S)
    OBVIOUS
  <2> QED BY <2>1, <2>2, <2>3, <2>4
<1>2. ASSUME NEW j \in Nat, j \in T PROVE j + 1 \in T
  <2> SUFFICES ASSUME j + 1 <= n PROVE Known(j + 1)
    OBVIOUS
  <2> DEFINE s == d[j]
             l == Len(s)
  <2>1. Known(j) /\ j + 1 \in 1..n
    BY <1>0, <1>2
  <2>2. d[j + 1] = s \o q[j + 1]
    <3>1. (j + 1) - 1 = j
      OBVIOUS
    <3> QED BY <2>1, <3>1 DEF Joined
  <2>3. s \in Seq(S) /\ l \in Nat
    BY <2>1
  <2>4. PICK g \in Injection(1..l, 1..j) : \A i \in 1..l : q[g[i]] = <<s[i]>>
    BY <2>1 DEF From1
  <2>5. g \in [1..l -> 1..j] /\ \A a, b \in 1..l : g[a] = g[b] => a = b
    BY <2>4 DEF Injection, IsInjective
  <2>6. CASE q[j + 1] = <<>>
    <3>1. d[j + 1] = s
      BY <2>2, <2>3, <2>6
    <3>2. g \in Injection(1..l, 1..(j + 1))
      <4>1. 1..j \subseteq 1..(j + 1)
        OBVIOUS
      <4>2. g \in [1..l -> 1..(j + 1)]
        BY <2>5, <4>1
      <4> QED BY <2>5, <4>2 DEF Injection, IsInjective
    <3>3. From1(q, s, j + 1)
      BY <2>4, <3>2 DEF From1
    <3> QED BY <2>1, <2>3, <2>6, <3>1, <3>3
  <2>7. ASSUME NEW x \in S, q[j + 1] = <<x>> PROVE Known(j + 1)
    <3> DEFINE t == s \o <<x>>
               h == [i \in 1..(l + 1) |-> IF i = l + 1 THEN j + 1 ELSE g[i]]
    <3>1. t \in Seq(S) /\ Len(t) = l + 1 /\ t[l + 1] = x /\ \A i \in 1..l : t[i] = s[i]
      BY <2>3
    <3>2. \A i \in 1..(l + 1) : i = l + 1 \/ i \in 1..l
      BY <2>3
    <3>3. h \in [1..(l + 1) -> 1..(j + 1)]
      <4>1. \A i \in 1..l : g[i] \in 1..j
        BY <2>5
      <4>2. 1..j \subseteq 1..(j + 1) /\ j + 1 \in 1..(j + 1)
        BY <1>2
      <4>3. \A i \in 1..(l + 1) : h[i] \in 1..(j + 1)
        BY <3>2, <4>1, <4>2
      <4> QED BY <4>3
    <3>4. \A i \in 1..l : h[i] = g[i] /\ g[i] # j + 1
      <4> SUFFICES ASSUME NEW i \in 1..l PROVE h[i] = g[i] /\ g[i] # j + 1
        OBVIOUS
      <4>1. i \in 1..(l + 1) /\ i # l + 1
        BY <2>3
      <4>2. g[i] \in 1..j
        BY <2>5
      <4> QED BY <4>1, <4>2
    <3>5. h[l + 1] = j + 1
      BY <2>3
    <3> HIDE DEF h, t
    <3>6. \A a, b \in 1..(l + 1) : h[a] = h[b] => a = b
      BY <2>5, <3>2, <3>4, <3>5
    <3>7. \A i \in 1..(l + 1) : q[h[i]] = <<t[i]>>
      BY <2>4, <2>7, <3>1, <3>2, <3>4, <3>5
    <3>8. h \in Injection(1..(l + 1), 1..(j + 1))
      BY <3>3, <3>6 DEF Injection, IsInjective
    <3>9. From1(q, t, j + 1)
      BY <3>1, <3>7, <3>8 DEF From1
    <3>10. d[j + 1] = t
      BY <2>2, <2>7 DEF t
    <3>11. (\A w \in 1..n : q[w] # <<>>) => Len(t) = j + 1
      BY <2>1, <3>1
    <3> QED BY <3>1, <3>9, <3>10, <3>11
  <2> QED BY <2>1, <2>6, <2>7
<1>3. k \in T
  <2> HIDE DEF T
  <2>1. \A j \in Nat : j \in T
    <3>1. \A j \in Nat : j \in T => j + 1 \in T
      BY <1>2
    <3> QED BY <1>1, <3>1, Induction
  <2>2. k \in Nat
    BY <1>0
  <2> QED BY <2>1, <2>2
<1> QED BY <1>0, <1>3

LEMMA AtMost ==
  ASSUME NEW A, NEW B, IsFiniteSet(B), NEW f, \A a \in A : f[a] \in B, \A a, b \in A : f[a] = f[b] => a = b
  PROVE  IsFiniteSet(A) /\ Cardinality(A) <= Cardinality(B)
<1> DEFINE g == [a \in A |-> f[a]]
<1>1. g \in Injection(A, B)
  <2>1. g \in [A -> B]
    OBVIOUS
  <2>2. \A a, b \in A : g[a] = g[b] => a = b
    OBVIOUS
  <2> QED BY <2>1, <2>2 DEF Injection, IsInjective
<1> HIDE DEF g
<1> QED BY <1>1, FS_Injection

LEMMA SizeIs == ASSUME NEW X PROVE Output!Cardinality(X) = Cardinality(X)
BY DEF Output!Cardinality, Cardinality

LEMMA ShownIsOnce ==
  ASSUME NEW S, NEW source \in Seq(S), NEW R, NEW wants \in Seq(R), NEW select
  PROVE  Output!ShownOnce(source, wants, select)
<1> DEFINE fits == {p \in (DOMAIN source) \X (DOMAIN wants) :
                      Output!outputItemMatches(source[p[1]], wants[p[2]], select.by)}
           found == Output!FirstFits(source, wants, fits)
           q == [w \in DOMAIN wants |-> IF found[w] # 0 THEN <<source[found[w]]>>
                                        ELSE IF select.fallback THEN <<wants[w]>> ELSE <<>>]
           shown == Output!FlattenSeq(q)
           m == Len(source)
           n == Len(wants)
           U == S \cup R
<1>1. m \in Nat /\ n \in Nat /\ DOMAIN source = 1..m /\ DOMAIN wants = 1..n
  OBVIOUS
<1>2. Output!selectOutputMatches(source, wants, select) = shown
  BY DEF Output!selectOutputMatches
<1>3. Matching(found, fits, m, n)
  <2> HIDE DEF fits
  <2> QED BY Matched
<1> HIDE DEF fits, found
<1>4. \A w \in 1..n : found[w] = 0 \/ found[w] \in 1..m
  BY <1>1, <1>3 DEF Matching
<1>5. \A v, w \in 1..n : found[v] # 0 /\ found[v] = found[w] => v = w
  BY <1>3 DEF Matching
<1>6. \A w \in 1..n :
        /\ found[w] # 0 => q[w] = <<source[found[w]]>>
        /\ found[w] = 0 /\ select.fallback => q[w] = <<wants[w]>>
        /\ found[w] = 0 /\ ~select.fallback => q[w] = <<>>
  BY <1>1
<1>7. \A w \in 1..n : q[w] = <<>> \/ \E x \in U : q[w] = <<x>>
  <2> SUFFICES ASSUME NEW w \in 1..n PROVE q[w] = <<>> \/ \E x \in U : q[w] = <<x>>
    OBVIOUS
  <2>1. CASE found[w] # 0
    <3>1. source[found[w]] \in U
      BY <1>1, <1>4, <2>1
    <3> HIDE DEF U, q
    <3> QED BY <1>6, <2>1, <3>1
  <2>2. CASE found[w] = 0 /\ select.fallback
    <3>1. wants[w] \in U
      BY <1>1
    <3> HIDE DEF U, q
    <3> QED BY <1>6, <2>2, <3>1
  <2>3. CASE found[w] = 0 /\ ~select.fallback
    <3> HIDE DEF U, q
    <3> QED BY <1>6, <2>3
  <2> HIDE DEF U, q
  <2> QED BY <2>1, <2>2, <2>3
<1>8. DOMAIN q = 1..n
  BY <1>1
<1> HIDE DEF q
<1>9. q \in Seq(Seq(U)) /\ Len(q) = n
  <2>1. \A w \in 1..n : q[w] \in Seq(U)
    <3> HIDE DEF U, n
    <3> SUFFICES ASSUME NEW w \in 1..n PROVE q[w] \in Seq(U)
      OBVIOUS
    <3>1. <<>> \in Seq(U) /\ \A x \in U : <<x>> \in Seq(U)
      OBVIOUS
    <3> QED BY <1>7, <3>1
  <2>2. q = [w \in 1..n |-> q[w]]
    BY <1>1 DEF q
  <2> HIDE DEF U
  <2>3. q \in [1..n -> Seq(U)]
    BY <2>1, <2>2
  <2> QED BY <1>1, <1>8, <2>3
<1> HIDE DEF U
<1>10. PICK d : Joined(q, d) /\ shown = d[n]
  <2>1. \E d : Joined(q, d) /\ shown = d[Len(q)]
    BY <1>9, FlattenIs
  <2> QED BY <1>9, <2>1
<1>11. /\ shown \in Seq(U) /\ From1(q, shown, n)
       /\ (\A w \in 1..n : q[w] # <<>>) => Len(shown) = n
  <2>1. n \in 0..n
    BY <1>1
  <2> HIDE DEF shown, n
  <2> QED BY <1>7, <1>9, <1>10, <2>1, JoinedFrom
<1> HIDE DEF shown
<1>12. select.fallback => Len(shown) = n
  <2> SUFFICES ASSUME select.fallback PROVE Len(shown) = n
    OBVIOUS
  <2>1. \A w \in 1..n : q[w] # <<>>
    BY <1>6
  <2> QED BY <1>11, <2>1
<1>13. PICK g \in Injection(1..Len(shown), 1..n) : \A i \in 1..Len(shown) : q[g[i]] = <<shown[i]>>
  BY <1>11 DEF From1
<1>14. DOMAIN shown = 1..Len(shown)
  BY <1>11
<1>15. /\ \A i \in DOMAIN shown : g[i] \in 1..n /\ q[g[i]] = <<shown[i]>>
       /\ \A i, j \in DOMAIN shown : g[i] = g[j] => i = j
  BY <1>13, <1>14 DEF Injection, IsInjective
<1>16. ASSUME NEW x
       PROVE  /\ Output!Count(shown, x) <= Output!Count(source, x) + Output!Count(wants, x)
              /\ ~select.fallback => Output!Count(shown, x) <= Output!Count(source, x)
  <2> DEFINE I == {i \in DOMAIN shown : shown[i] = x}
             A == {w \in 1..n : found[w] # 0 /\ source[found[w]] = x}
             B == {w \in 1..n : select.fallback /\ wants[w] = x}
             C == {i \in DOMAIN source : source[i] = x}
             D == {i \in DOMAIN wants : wants[i] = x}
  <2>1. Output!Count(shown, x) = Cardinality(I) /\ Output!Count(source, x) = Cardinality(C)
        /\ Output!Count(wants, x) = Cardinality(D)
    BY SizeIs DEF Output!Count
  <2>2. IsFiniteSet(C) /\ IsFiniteSet(D) /\ IsFiniteSet(A) /\ IsFiniteSet(B)
    <3>1. IsFiniteSet(1..m) /\ IsFiniteSet(1..n)
      BY <1>1, FS_Interval
    <3>2. C \subseteq 1..m /\ D \subseteq 1..n /\ A \subseteq 1..n /\ B \subseteq 1..n
      BY <1>1
    <3> HIDE DEF A, B, C, D
    <3> QED BY <3>1, <3>2, FS_Subset
  <2>3. \A i \in I : g[i] \in A \cup B
    <3> SUFFICES ASSUME NEW i \in I PROVE g[i] \in A \cup B
      OBVIOUS
    <3>1. g[i] \in 1..n /\ q[g[i]] = <<x>>
      BY <1>15
    <3> DEFINE w == g[i]
    <3> HIDE DEF w
    <3>2. w \in 1..n /\ q[w] = <<x>>
      BY <3>1 DEF w
    <3>3. CASE found[w] # 0
      <4>1. <<source[found[w]]>> = <<x>>
        BY <1>6, <3>2, <3>3
      <4>2. source[found[w]] = x
        BY <4>1
      <4>3. w \in A
        BY <3>2, <3>3, <4>2
      <4> QED BY <4>3 DEF w
    <3>4. CASE found[w] = 0 /\ select.fallback
      <4>1. <<wants[w]>> = <<x>>
        BY <1>6, <3>2, <3>4
      <4>2. wants[w] = x
        BY <4>1
      <4>3. w \in B
        BY <3>2, <3>4, <4>2
      <4> QED BY <4>3 DEF w
    <3>5. CASE found[w] = 0 /\ ~select.fallback
      <4>1. <<>> = <<x>>
        BY <1>6, <3>2, <3>5
      <4> QED BY <4>1
    <3> QED BY <3>3, <3>4, <3>5
  <2>4. \A i, j \in I : g[i] = g[j] => i = j
    BY <1>15
  <2>5. \A w \in A : found[w] \in C
    BY <1>1, <1>4
  <2>6. \A v, w \in A : found[v] = found[w] => v = w
    BY <1>5
  <2>7. B \subseteq D /\ (~select.fallback => B = {})
    BY <1>1
  <2> HIDE DEF I, A, B, C, D
  <2>8. IsFiniteSet(A \cup B) /\ Cardinality(A \cup B) <= Cardinality(A) + Cardinality(B)
    <3>1. IsFiniteSet(A \cup B)
          /\ Cardinality(A \cup B) = Cardinality(A) + Cardinality(B) - Cardinality(A \cap B)
      BY <2>2, FS_Union
    <3>2. IsFiniteSet(A \cap B)
      BY <2>2, FS_Intersection
    <3>3. Cardinality(A \cap B) \in Nat /\ Cardinality(A) \in Nat /\ Cardinality(B) \in Nat
      BY <2>2, <3>2, FS_CardinalityType
    <3> QED BY <3>1, <3>3
  <2>9. IsFiniteSet(I) /\ Cardinality(I) <= Cardinality(A \cup B)
    BY <2>3, <2>4, <2>8, AtMost
  <2>10. Cardinality(A) <= Cardinality(C)
    BY <2>2, <2>5, <2>6, AtMost
  <2>11. Cardinality(B) <= Cardinality(D) /\ (~select.fallback => Cardinality(B) = 0)
    <3>1. Cardinality(B) <= Cardinality(D)
      BY <2>2, <2>7, FS_Subset
    <3>2. Cardinality({}) = 0
      BY FS_EmptySet
    <3> QED BY <2>7, <3>1, <3>2
  <2>12. Cardinality(I) \in Nat /\ Cardinality(A) \in Nat /\ Cardinality(B) \in Nat
         /\ Cardinality(C) \in Nat /\ Cardinality(D) \in Nat /\ Cardinality(A \cup B) \in Nat
    BY <2>2, <2>8, <2>9, FS_CardinalityType
  <2>13. Cardinality(I) <= Cardinality(C) + Cardinality(D)
    BY <2>8, <2>9, <2>10, <2>11, <2>12
  <2>14. ~select.fallback => Cardinality(I) <= Cardinality(C)
    BY <2>8, <2>9, <2>10, <2>11, <2>12
  <2> QED BY <2>1, <2>13, <2>14
<1> QED BY <1>2, <1>12, <1>16 DEF Output!ShownOnce

-----------------------------------------------------------------------------
(* What is shown of a result.                                              *)

\* Nothing of what is shown is replaced by an extra.
LEMMA ExtraReplacesNothing ==
  ASSUME NEW payload, NEW extra, NEW k \in DOMAIN payload
  PROVE  /\ k \in DOMAIN Output!withResultExtra(payload, extra)
         /\ Output!withResultExtra(payload, extra)[k] = payload[k]
BY DEF Output!withResultExtra

LEMMA ExtraIsAllThatIsAdded ==
  ASSUME NEW payload, NEW extra, NEW k, k \notin DOMAIN payload, k \notin DOMAIN extra
  PROVE  k \notin DOMAIN Output!withResultExtra(payload, extra)
BY DEF Output!withResultExtra

LEMMA ShownIsFound ==
  ASSUME NEW action, NEW input, NEW result
  PROVE  Output!ShowsWhatWasFound(action, input, result)
<1> DEFINE dry == result.dryRun \/ "dry_run" \in DOMAIN input
           Under(k) == CASE k = "one" -> Output!ItemOf(input, result)
                         [] k = "many" -> result.items
                         [] k = "actions" -> result.actions
                         [] k = "total" -> result.total
                         [] OTHER -> <<k>>
           counted == IF result.total # <<>> THEN {"total"} ELSE {}
           keys == CASE action = "list" -> {"pagination", "many"} \cup counted
                     [] action \in {"create", "update", "delete"} /\ dry ->
                          {"actions", "available_count", "dry_run", "requested_count"}
                     [] action \in {"create", "update"} /\ ~dry -> {"actions", "one"}
                     [] action = "delete" /\ ~dry -> {"actions", "deleted", "one"}
                     [] action = "get" -> {"one"}
                     [] OTHER -> (IF result.actions # <<>> THEN {"actions"} ELSE {}) \cup
                                 (IF result.item # <<>> THEN {"one"}
                                  ELSE IF result.actions = <<>> THEN {"many", "total"}
                                  ELSE IF result.items # <<>> THEN {"many"} \cup counted ELSE {})
           shown == [k \in keys |-> Under(k)]
           payload == Output!resourceActionPayload(action, input, result)
<1>1. payload = Output!withResultExtra(shown, result.extra)
  BY Zenon DEF Output!resourceActionPayload, Output!Keyed
<1>2. Under("one") = Output!ItemOf(input, result) /\ Under("many") = result.items /\ Under("actions") = result.actions
  OBVIOUS
<1>3. \A k \in keys : k \in DOMAIN payload /\ payload[k] = Under(k)
  <2> SUFFICES ASSUME NEW k \in keys PROVE k \in DOMAIN payload /\ payload[k] = Under(k)
    OBVIOUS
  <2> HIDE DEF keys, Under
  <2>1. k \in DOMAIN shown /\ shown[k] = Under(k)
    OBVIOUS
  <2> HIDE DEF shown
  <2>2. k \in DOMAIN Output!withResultExtra(shown, result.extra)
        /\ Output!withResultExtra(shown, result.extra)[k] = shown[k]
    BY <2>1, ExtraReplacesNothing
  <2> HIDE DEF payload
  <2> QED BY <1>1, <2>1, <2>2
<1>4. ~dry /\ result.item # <<>> /\ action # "list" => "one" \in keys
  OBVIOUS
<1>5. action = "list" => "many" \in keys
  OBVIOUS
<1>6. action \in {"create", "update", "delete"} => "actions" \in keys /\ (dry => "one" \notin keys)
  OBVIOUS
<1>7. result.item # <<>> => Output!ItemOf(input, result) = result.item
  BY DEF Output!ItemOf
<1> HIDE DEF keys, Under
<1>8. ASSUME "one" \notin keys, "one" \notin DOMAIN result.extra PROVE "one" \notin DOMAIN payload
  <2>1. "one" \notin DOMAIN shown
    BY <1>8
  <2> HIDE DEF shown, payload
  <2> QED BY <1>1, <1>8, <2>1, ExtraIsAllThatIsAdded
<1> HIDE DEF payload
<1>9. ~dry /\ result.item # <<>> /\ action # "list" => "one" \in DOMAIN payload /\ payload["one"] = result.item
  BY <1>2, <1>3, <1>4, <1>7
<1>10. action = "list" => payload["many"] = result.items
  BY <1>2, <1>3, <1>5
<1>11. action \in {"create", "update", "delete"} =>
         /\ "actions" \in DOMAIN payload /\ payload["actions"] = result.actions
         /\ dry /\ "one" \notin DOMAIN result.extra => "one" \notin DOMAIN payload
  BY <1>2, <1>3, <1>6, <1>8
<1> QED BY <1>9, <1>10, <1>11 DEF Output!ShowsWhatWasFound, payload

-----------------------------------------------------------------------------
\* The question stays the one that was asked.
Asked == about = "match" => \E questions \in MatchQuestions : question \in questions

\* A wait for added items ends when, and only when, each is there, what
\* changed is shown once, and a probe's extras replace nothing
\* (captureItemsMatched, selectOutputMatches, withResultExtra).
THEOREM ResultsAreWhole == ChoiceSpec => []ResultsAreShown
<1>1. ChoiceInit => Asked
  BY DEF ChoiceInit, Asks, Asked
<1>2. Asked /\ [ChoiceNext]_choiceVars => Asked'
  <2> SUFFICES ASSUME Asked, [ChoiceNext]_choiceVars PROVE Asked'
    OBVIOUS
  <2>1. UNCHANGED <<about, question>>
    BY DEF ChoiceNext, ResolveCredential, CompareMetadata, MatchItems, ShowResult, ReadPages, Reply,
           choiceVars, asking
  <2> QED BY <2>1 DEF Asked
<1>3. Asked => ResultsAreShown
  <2> SUFFICES ASSUME Asked PROVE ResultsAreShown
    OBVIOUS
  <2>1. ASSUME about = "match"
        PROVE  /\ Output!HitIsExact(question.items, question.wants, question.select.by)
               /\ Output!ShownOnce(question.items, question.wants, question.select)
    <3> DEFINE S == Output!ToSet(question.items)
               R == Output!ToSet(question.wants)
    <3>1. question.items \in Seq(S) /\ question.wants \in Seq(R)
      <4>1. PICK questions \in MatchQuestions : question \in questions
        BY <2>1 DEF Asked
      <4>2. question.items \in Seq(ToSet(question.items)) /\ question.wants \in Seq(ToSet(question.wants))
        BY <4>1, MatchAssumption
      <4> QED BY <4>2 DEF ToSet, Output!ToSet
    <3> HIDE DEF S, R
    <3>2. Output!ShownOnce(question.items, question.wants, question.select)
      BY <3>1, ShownIsOnce
    <3>3. Output!HitIsExact(question.items, question.wants, question.select.by)
      BY <3>1, HitHasItsItems, HitWhenThere DEF Output!HitIsExact
    <3> QED BY <3>2, <3>3
  <2>2. Output!ShowsWhatWasFound(question.action, question.input, question.result)
    BY ShownIsFound
  <2> QED BY <2>1, <2>2 DEF ResultsAreShown, Answered
<1> QED BY <1>1, <1>2, <1>3, PTL DEF ChoiceSpec

-----------------------------------------------------------------------------
(* The credential of one profile.                                          *)

LEMMA KeyPlaces ==
  ASSUME NEW n, NEW place, place = Credentials!NoProfile \/ place.name = n, NEW env, env.name = Env
  PROVE  /\ Credentials!KeyOf(place, env).id \in {n, Env, None}
         /\ Credentials!KeyOf(place, env).secret \in {n, Env, None}
         /\ Credentials!KeyOf(place, env).token \in {n, Env, None}
<1>1. \A f : Credentials!Value(place, f) \in {n, None}
  BY DEF Credentials!Value, Credentials!NoProfile, Credentials!Place
<1>2. \A f : Credentials!Value(env, f) \in {Env, None}
  BY DEF Credentials!Value
<1> QED BY <1>1, <1>2 DEF Credentials!KeyOf, Credentials!First

\* What a credential for a key is.
Refused(r) == r.error \in Credentials!Codes \ {"Cycle"} /\ r.key = Credentials!NoKey
MadeOf(r, modes, parts) == r.error = None /\ r.mode \in modes /\ {r.key.id, r.key.secret, r.key.token} \subseteq parts

LEMMA FailureFails ==
  ASSUME NEW code \in Credentials!Codes \ {"Cycle"}
  PROVE  Refused(Credentials!Failure(code))
BY DEF Refused, Credentials!Failure

LEMMA InvalidFails == Refused(Credentials!Invalid)
<1>1. "InvalidCredentials" \in Credentials!Codes \ {"Cycle"}
  BY DEF Credentials!Codes
<1> QED BY <1>1, FailureFails DEF Credentials!Invalid

LEMMA StaticIs ==
  ASSUME NEW key, NEW way, NEW parts, {key.id, key.secret, key.token} \subseteq parts
  PROVE  LET r == Credentials!staticCredentialFromValues(key, way) IN
         Refused(r) \/ (MadeOf(r, {way, "StsToken"}, parts) /\ (r.mode # way => r.mode = "StsToken"))
<1> DEFINE r == Credentials!staticCredentialFromValues(key, way)
<1>1. r = Credentials!Failure("MissingCredentials") \/
      r = Credentials!Credential(IF key.token # None THEN "StsToken" ELSE way, key, None, None)
  BY DEF Credentials!staticCredentialFromValues
<1>2. Refused(Credentials!Failure("MissingCredentials"))
  BY FailureFails DEF Credentials!Codes
<1>3. CASE r = Credentials!Credential(IF key.token # None THEN "StsToken" ELSE way, key, None, None)
  <2>1. r.error = None /\ r.key = key /\ r.mode = IF key.token # None THEN "StsToken" ELSE way
    BY <1>3 DEF Credentials!Credential
  <2> QED BY <2>1 DEF MadeOf
<1> QED BY <1>1, <1>2, <1>3

LEMMA AssumeIs ==
  ASSUME NEW source, NEW place, NEW env, NEW way
  PROVE  LET r == Credentials!assumeRoleCredential(source, place, env, way)
             role == Credentials!First(Credentials!Value(place, "ram_role_arn"), Credentials!Value(env, "ram_role_arn"))
         IN \/ source.error # None /\ r = source
            \/ source.error = None /\ r = Credentials!Invalid
            \/ /\ source.error = None /\ r.error = None /\ r.mode = way /\ r.key = source.key
               /\ r.role = role /\ role # None
               /\ r.account = Credentials!ArnAccount(place, env, "ram_role_arn")
BY DEF Credentials!assumeRoleCredential, Credentials!Credential

LEMMA NoKeyIs == {Credentials!NoKey.id, Credentials!NoKey.secret, Credentials!NoKey.token} = {None}
BY DEF Credentials!NoKey

LEMMA OIDCIs ==
  ASSUME NEW place, NEW env, NEW parts, None \in parts
  PROVE  Refused(Credentials!OIDC(place, env)) \/ MadeOf(Credentials!OIDC(place, env), {"OIDC"}, parts)
<1>1. \/ Credentials!OIDC(place, env) = Credentials!Invalid
      \/ \E role, account : Credentials!OIDC(place, env) = Credentials!Credential("OIDC", Credentials!NoKey, role, account)
  BY DEF Credentials!OIDC
<1>2. \A role, account : MadeOf(Credentials!Credential("OIDC", Credentials!NoKey, role, account), {"OIDC"}, parts)
  BY NoKeyIs DEF MadeOf, Credentials!Credential
<1> QED BY <1>1, <1>2, InvalidFails

LEMMA KeylessIs ==
  ASSUME NEW way, NEW parts, None \in parts
  PROVE  MadeOf(Credentials!Credential(way, Credentials!NoKey, None, None), {way}, parts)
BY NoKeyIs DEF MadeOf, Credentials!Credential

LEMMA ProviderIs ==
  ASSUME NEW f, NEW place, NEW way, NEW else, NEW parts, None \in parts
  PROVE  LET r == Credentials!Provider(f, place, way, else) IN Refused(r) \/ MadeOf(r, {way}, parts)
<1>1. Credentials!Provider(f, place, way, else) \in
        {Credentials!Invalid, Credentials!Credential(way, Credentials!NoKey, None, None)}
  BY DEF Credentials!Provider
<1> QED BY <1>1, InvalidFails, KeylessIs

LEMMA GuardedIs ==
  ASSUME NEW disabled, NEW r, NEW modes, NEW parts, Refused(r) \/ MadeOf(r, modes, parts)
  PROVE  LET g == Credentials!Guarded(disabled, r) IN Refused(g) \/ MadeOf(g, modes, parts)
<1>1. Credentials!Guarded(disabled, r) \in {r, Credentials!Failure("CredentialSourceDisabled")}
  BY DEF Credentials!Guarded
<1>2. Refused(Credentials!Failure("CredentialSourceDisabled"))
  BY FailureFails DEF Credentials!Codes
<1> QED BY <1>1, <1>2

\* A profile that is not a link has the way it declares, with a key of its
\* own or of the environment, or it fails.
Kept(way) == {way} \cup (IF way = "AK" THEN {"StsToken"} ELSE {})

LEMMA UnchainedIs ==
  ASSUME NEW n, NEW place, place = Credentials!NoProfile \/ place.name = n, NEW env, env.name = Env,
         NEW way, way # "ChainableRamRoleArn", NEW disabled
  PROVE  LET r == Credentials!Unchained(place, way, env, disabled) IN
         Refused(r) \/ MadeOf(r, Kept(way), {n, Env, None})
<1> DEFINE r == Credentials!Unchained(place, way, env, disabled)
           key == Credentials!KeyOf(place, env)
           parts == {n, Env, None}
<1> SUFFICES Refused(r) \/ MadeOf(r, Kept(way), parts)
  OBVIOUS
<1>1. {key.id, key.secret, key.token} \subseteq parts /\ None \in parts
  <2>1. {key.id, key.secret, key.token} \subseteq {n, Env, None}
    <3>1. key.id \in {n, Env, None} /\ key.secret \in {n, Env, None} /\ key.token \in {n, Env, None}
      BY KeyPlaces
    <3> HIDE DEF key
    <3> QED BY <3>1
  <2> HIDE DEF key
  <2> QED BY <2>1
<1>2. None \notin Credentials!Modes
  BY NamesAssumption
<1> HIDE DEF key, parts
<1>3. CASE way = None
  <2>1. r = Credentials!Failure("MissingCredentials")
    BY <1>2, <1>3 DEF Credentials!Unchained, Credentials!Modes
  <2> QED BY <2>1, FailureFails DEF Credentials!Codes
<1>4. CASE way \notin Credentials!Modes \cup {None}
  <2>1. r = Credentials!Failure("UnsupportedCredentialMode")
    BY <1>4 DEF Credentials!Unchained, Credentials!Modes
  <2> QED BY <2>1, FailureFails DEF Credentials!Codes
<1>5. CASE way \in {"AK", "StsToken"}
  <2>1. r = Credentials!staticCredentialFromValues(key, way)
    BY <1>2, <1>5 DEF Credentials!Unchained, Credentials!Modes, key
  <2>2. Refused(r) \/ (MadeOf(r, {way, "StsToken"}, parts) /\ (r.mode # way => r.mode = "StsToken"))
    BY <1>1, <2>1, StaticIs
  <2> QED BY <1>5, <2>2 DEF MadeOf, Kept
<1>6. CASE way = "RamRoleArn"
  <2> DEFINE source == Credentials!staticCredentialFromValues(key, "AK")
  <2>1. r = Credentials!assumeRoleCredential(source, place, env, way)
    BY <1>2, <1>6 DEF Credentials!Unchained, Credentials!Modes, key
  <2>2. Refused(source) \/ MadeOf(source, {"AK", "StsToken"}, parts)
    BY <1>1, StaticIs
  <2> HIDE DEF source
  <2>3. (r = source /\ source.error # None) \/ r = Credentials!Invalid
        \/ (source.error = None /\ r.error = None /\ r.mode = way /\ r.key = source.key)
    <3> HIDE DEF r
    <3> QED BY <2>1, AssumeIs
  <2> HIDE DEF r
  <2>4. CASE r = source /\ source.error # None
    BY <2>2, <2>4 DEF MadeOf
  <2>5. CASE r = Credentials!Invalid
    BY <2>5, InvalidFails
  <2>6. CASE source.error = None /\ r.error = None /\ r.mode = way /\ r.key = source.key
    <3>1. ~Refused(source)
      <4>1. None \notin Credentials!Codes
        BY NamesAssumption
      <4> QED BY <2>6, <4>1 DEF Refused
    <3> QED BY <2>2, <2>6, <3>1 DEF MadeOf, Kept
  <2> QED BY <2>3, <2>4, <2>5, <2>6
<1>7. CASE way = "EcsRamRole"
  <2>1. r = Credentials!Credential(way, Credentials!NoKey, None, None)
    BY <1>2, <1>7 DEF Credentials!Unchained, Credentials!Modes
  <2> QED BY <1>1, <2>1, KeylessIs DEF Kept, MadeOf
<1>8. CASE way = "OIDC"
  <2>1. r = Credentials!OIDC(place, env)
    BY <1>2, <1>8 DEF Credentials!Unchained, Credentials!Modes
  <2> QED BY <1>1, <1>8, <2>1, OIDCIs DEF Kept, MadeOf
<1>9. CASE way \in {"CloudSSO", "OAuth"}
  <2>1. \/ r = Credentials!Provider("cloud_sso_sign_in_url", place, way, FALSE)
        \/ r = Credentials!Provider("oauth_site_type", place, way, FALSE)
    BY <1>2, <1>9 DEF Credentials!Unchained, Credentials!Modes
  <2>2. Refused(r) \/ MadeOf(r, {way}, parts)
    <3> HIDE DEF r
    <3> QED BY <1>1, <2>1, ProviderIs
  <2> QED BY <2>2 DEF Kept, MadeOf
<1>10. CASE way \in {"External", "CredentialsURI"}
  <2>1. \E f, else : r = Credentials!Guarded(disabled, Credentials!Provider(f, place, way, else))
    BY <1>2, <1>10 DEF Credentials!Unchained, Credentials!Modes
  <2>2. PICK f, else : r = Credentials!Guarded(disabled, Credentials!Provider(f, place, way, else))
    BY <2>1
  <2>3. Refused(r) \/ MadeOf(r, {way}, parts)
    BY <1>1, <2>2, ProviderIs, GuardedIs
  <2> QED BY <2>3 DEF Kept, MadeOf
<1>11. CASE way = "BearerToken"
  <2>1. r \in {Credentials!Credential(way, Credentials!NoKey, None, None), Credentials!Failure("MissingCredentials")}
    BY <1>2, <1>11 DEF Credentials!Unchained, Credentials!Modes
  <2>2. Refused(Credentials!Failure("MissingCredentials"))
    BY FailureFails DEF Credentials!Codes
  <2> QED BY <1>1, <2>1, <2>2, KeylessIs DEF Kept, MadeOf
<1> HIDE DEF r
<1> QED BY <1>3, <1>4, <1>5, <1>6, <1>7, <1>8, <1>9, <1>10, <1>11 DEF Credentials!Modes

-----------------------------------------------------------------------------
(* A chain of profiles, resolved one after the other.                      *)

Linked(q) == \A n \in Names : q.aliyun[n].source \in Names \cup {None}

\* The credential of n, when those of the profiles after it are known.
Next1(q, known, seen, n) ==
  IF n \in seen THEN Credentials!Cycle
  ELSE IF Credentials!ModeOf(q.aliyun[n], q.env) # "ChainableRamRoleArn"
    THEN Credentials!Unchained(q.aliyun[n], Credentials!ModeOf(q.aliyun[n], q.env), q.env, q.disabled)
  ELSE IF q.aliyun[n].source = None \/ q.aliyun[q.aliyun[n].source] = Credentials!NoProfile
    THEN Credentials!Invalid
  ELSE Credentials!assumeRoleCredential(known[<<seen \cup {n}, q.aliyun[n].source>>], q.aliyun[n], q.env,
                                        "ChainableRamRoleArn")

LEMMA NextSame ==
  ASSUME NEW q, Linked(q), NEW seen, NEW n \in Names, NEW f, NEW g,
         n \notin seen => \A s \in Names : f[<<seen \cup {n}, s>>] = g[<<seen \cup {n}, s>>]
  PROVE  Next1(q, f, seen, n) = Next1(q, g, seen, n)
<1>1. CASE n \in seen
  BY <1>1 DEF Next1
<1>2. CASE n \notin seen /\ q.aliyun[n].source = None
  BY <1>2 DEF Next1
<1>3. CASE n \notin seen /\ q.aliyun[n].source # None
  <2>1. q.aliyun[n].source \in Names
    BY <1>3 DEF Linked
  <2>2. f[<<seen \cup {n}, q.aliyun[n].source>>] = g[<<seen \cup {n}, q.aliyun[n].source>>]
    BY <1>3, <2>1
  <2> QED BY <1>3, <2>2 DEF Next1
<1> QED BY <1>1, <1>2, <1>3

\* Each profile makes those that are left fewer.
LEMMA RestShrinks ==
  ASSUME NEW seen \in SUBSET Names
  PROVE  /\ Cardinality(Names \ seen) \in 0..Cardinality(Names) /\ Cardinality(Names) \in Nat
         /\ \A n \in Names \ seen : Cardinality(Names \ (seen \cup {n})) = Cardinality(Names \ seen) - 1
<1>1. IsFiniteSet(Names)
  BY NamesAssumption
<1>2. IsFiniteSet(Names \ seen) /\ Cardinality(Names \ seen) <= Cardinality(Names)
  BY <1>1, FS_Subset
<1>3. Cardinality(Names) \in Nat /\ Cardinality(Names \ seen) \in Nat
  BY <1>1, <1>2, FS_CardinalityType
<1>4. ASSUME NEW n \in Names \ seen
      PROVE  Cardinality(Names \ (seen \cup {n})) = Cardinality(Names \ seen) - 1
  <2> DEFINE left == Names \ seen
  <2>1. Names \ (seen \cup {n}) = left \ {n}
    OBVIOUS
  <2>2. n \in left /\ IsFiniteSet(left)
    BY <1>2
  <2> HIDE DEF left
  <2>3. Cardinality(left \ {n}) = Cardinality(left) - 1
    BY <2>2, FS_RemoveElement
  <2> QED BY <2>1, <2>3 DEF left
<1>5. \A k, n \in Nat : k <= n => k \in 0..n
  OBVIOUS
<1>6. Cardinality(Names \ seen) \in 0..Cardinality(Names)
  BY <1>2, <1>3, <1>5
<1> QED BY <1>3, <1>4, <1>6

LEMMA ResolveIs ==
  ASSUME NEW q, Linked(q), q.name \in Names
  PROVE  \E known :
           /\ Credentials!resolveAliyunProfileCredential(q.aliyun, q.name, q.env, q.disabled) = known[<<{}, q.name>>]
           /\ \A seen \in SUBSET Names, n \in Names : known[<<seen, n>>] = Next1(q, known, seen, n)
<1> DEFINE At == (SUBSET Names) \X Names
           Size(seen) == Cardinality(Names \ seen)
           Good(h, k) == \A seen \in SUBSET Names, n \in Names : Size(seen) < k => h[<<seen, n>>] = Next1(q, h, seen, n)
           T == {k \in Nat : \E h : Good(h, k)}
           resolve == CHOOSE f : f = [at \in At |-> Next1(q, f, at[1], at[2])]
           N == Cardinality(Names)
<1>0. \A seen \in SUBSET Names :
        /\ Size(seen) \in 0..N /\ N \in Nat
        /\ \A n \in Names \ seen : Size(seen \cup {n}) = Size(seen) - 1
  BY RestShrinks
<1>1. 0 \in T
  <2>1. Good(<<>>, 0)
    BY <1>0
  <2> QED BY <2>1
<1>2. ASSUME NEW k \in Nat, k \in T PROVE k + 1 \in T
  <2>1. PICK h : Good(h, k)
    BY <1>2
  <2> DEFINE g == [at \in At |-> IF Size(at[1]) < k THEN h[at] ELSE Next1(q, h, at[1], at[2])]
  <2>2. ASSUME NEW seen \in SUBSET Names, NEW n \in Names, Size(seen) < k + 1
        PROVE  g[<<seen, n>>] = Next1(q, g, seen, n)
    <3>1. g[<<seen, n>>] = IF Size(seen) < k THEN h[<<seen, n>>] ELSE Next1(q, h, seen, n)
      OBVIOUS
    <3>2. g[<<seen, n>>] = Next1(q, h, seen, n)
      <4> HIDE DEF g
      <4> QED BY <2>1, <3>1
    <3>3. ASSUME n \notin seen, NEW s \in Names PROVE g[<<seen \cup {n}, s>>] = h[<<seen \cup {n}, s>>]
      <4>1. Size(seen \cup {n}) < k
        <5>1. Size(seen \cup {n}) = Size(seen) - 1 /\ Size(seen) \in 0..N /\ N \in Nat
          BY <1>0, <3>3
        <5> HIDE DEF Size
        <5> QED BY <2>2, <5>1
      <4>2. seen \cup {n} \in SUBSET Names
        OBVIOUS
      <4> HIDE DEF Size
      <4> QED BY <4>1, <4>2
    <3> HIDE DEF g, Size
    <3>4. Next1(q, g, seen, n) = Next1(q, h, seen, n)
      BY <3>3, NextSame
    <3> QED BY <3>2, <3>4
  <2> HIDE DEF g
  <2>3. Good(g, k + 1)
    BY <2>2
  <2> QED BY <2>3
<1>3. \E h : Good(h, N + 1)
  <2>1. N + 1 \in Nat
    <3>1. IsFiniteSet(Names)
      BY NamesAssumption
    <3>2. N \in Nat
      BY <3>1, FS_CardinalityType
    <3> QED BY <3>2
  <2>2. \A k \in Nat : k \in T
    <3> HIDE DEF T
    <3>1. \A k \in Nat : k \in T => k + 1 \in T
      BY <1>2
    <3> QED BY <1>1, <3>1, Induction
  <2> HIDE DEF Good
  <2> QED BY <2>1, <2>2
<1>4. PICK h : Good(h, N + 1)
  BY <1>3
<1> DEFINE f == [at \in At |-> h[at]]
<1>5. \A seen \in SUBSET Names, n \in Names : h[<<seen, n>>] = Next1(q, h, seen, n)
  <2> SUFFICES ASSUME NEW seen \in SUBSET Names, NEW n \in Names PROVE h[<<seen, n>>] = Next1(q, h, seen, n)
    OBVIOUS
  <2>1. Size(seen) < N + 1
    <3>1. Size(seen) \in 0..N /\ N \in Nat
      BY <1>0
    <3> HIDE DEF Size, N
    <3> QED BY <3>1
  <2> QED BY <1>4, <2>1
<1>6. f = [at \in At |-> Next1(q, f, at[1], at[2])]
  <2> SUFFICES ASSUME NEW at \in At PROVE h[at] = Next1(q, f, at[1], at[2])
    OBVIOUS
  <2>1. at[1] \in SUBSET Names /\ at[2] \in Names /\ at = <<at[1], at[2]>>
    OBVIOUS
  <2>2. \A s \in Names : f[<<at[1] \cup {at[2]}, s>>] = h[<<at[1] \cup {at[2]}, s>>]
    BY <2>1
  <2> HIDE DEF f, At
  <2>3. Next1(q, f, at[1], at[2]) = Next1(q, h, at[1], at[2])
    BY <2>1, <2>2, NextSame
  <2>4. h[<<at[1], at[2]>>] = Next1(q, h, at[1], at[2])
    BY <1>5, <2>1
  <2> QED BY <2>1, <2>3, <2>4
<1>7. resolve = [at \in At |-> Next1(q, resolve, at[1], at[2])]
  <2>1. \E g : g = [at \in At |-> Next1(q, g, at[1], at[2])]
    BY <1>6
  <2> QED BY <2>1
<1>8. Credentials!resolveAliyunProfileCredential(q.aliyun, q.name, q.env, q.disabled) = resolve[<<{}, q.name>>]
  BY DEF Credentials!resolveAliyunProfileCredential, Next1
<1> HIDE DEF resolve
<1>9. ASSUME NEW seen \in SUBSET Names, NEW n \in Names PROVE resolve[<<seen, n>>] = Next1(q, resolve, seen, n)
  BY <1>7
<1> QED BY <1>8, <1>9

\* The walk along the chain.
Steps(q, walk) ==
  walk[0] = q.name /\ \A i \in 1..Cardinality(Names) : walk[i] = Credentials!Link(q, walk[i - 1])

LEMMA ChainIs ==
  ASSUME NEW q
  PROVE  \E walk : Steps(q, walk) /\ Credentials!Chain(q) = {walk[i] : i \in 0..Cardinality(Names)} \ {None}
<1> DEFINE N == Cardinality(Names)
           After(f, i) == IF i = 0 THEN q.name ELSE Credentials!Link(q, f[i - 1])
           Upto(h, k) == \A i \in 0..k : h[i] = After(h, i)
           T == {k \in Nat : \E h : Upto(h, k)}
           walk == CHOOSE f : f = [i \in 0..N |-> After(f, i)]
<1>0. N \in Nat
  BY NamesAssumption, FS_CardinalityType
<1>1. 0 \in T
  <2> DEFINE g == [i \in 0..0 |-> q.name]
  <2>1. Upto(g, 0)
    OBVIOUS
  <2> HIDE DEF g
  <2> QED BY <2>1
<1>2. ASSUME NEW k \in Nat, k \in T PROVE k + 1 \in T
  <2>1. PICK h : Upto(h, k)
    BY <1>2
  <2> DEFINE g == [i \in 0..(k + 1) |-> IF i = k + 1 THEN After(h, k + 1) ELSE h[i]]
  <2>2. ASSUME NEW i \in 0..(k + 1) PROVE g[i] = After(g, i)
    <3>1. i # 0 => i - 1 \in 0..k /\ g[i - 1] = h[i - 1]
      OBVIOUS
    <3>2. After(g, i) = After(h, i)
      <4> HIDE DEF g
      <4> QED BY <3>1
    <3>3. CASE i = k + 1
      <4>1. g[i] = After(h, i)
        BY <3>3
      <4> QED BY <3>2, <4>1
    <3>4. CASE i # k + 1
      <4>1. i \in 0..k /\ g[i] = h[i]
        BY <3>4
      <4> QED BY <2>1, <3>2, <4>1
    <3> QED BY <3>3, <3>4
  <2> HIDE DEF g
  <2>3. Upto(g, k + 1)
    BY <2>2
  <2> QED BY <2>3
<1>3. \E h : Upto(h, N)
  <2> HIDE DEF T
  <2>1. N \in T
    BY <1>0, <1>1, <1>2, Induction
  <2> QED BY <2>1 DEF T
<1>4. PICK h : Upto(h, N)
  BY <1>3
<1> DEFINE f == [i \in 0..N |-> h[i]]
<1>5. f = [i \in 0..N |-> After(f, i)]
  <2> SUFFICES ASSUME NEW i \in 0..N PROVE h[i] = After(f, i)
    OBVIOUS
  <2>1. i # 0 => f[i - 1] = h[i - 1]
    BY <1>0
  <2>2. After(f, i) = After(h, i)
    <3> HIDE DEF f
    <3> QED BY <2>1
  <2> QED BY <1>4, <2>2
<1>6. walk = [i \in 0..N |-> After(walk, i)]
  <2>1. \E g : g = [i \in 0..N |-> After(g, i)]
    BY <1>5
  <2> QED BY <2>1
<1>7. Credentials!Chain(q) = {walk[i] : i \in 0..N} \ {None}
  <2> DEFINE size == Credentials!Cardinality(Names)
             other == CHOOSE f_1 : f_1 = [i \in 0..size |-> IF i = 0 THEN q.name ELSE Credentials!Link(q, f_1[i - 1])]
  <2>1. Credentials!Chain(q) = {other[i] : i \in DOMAIN other} \ {None}
    BY DEF Credentials!Chain
  <2>2. size = N
    BY DEF Credentials!Cardinality, Cardinality
  <2>3. other = walk
    BY <2>2
  <2>4. DOMAIN walk = 0..N
    <3> HIDE DEF walk, After
    <3> QED BY <1>6
  <2> HIDE DEF other, walk, N
  <2> QED BY <2>1, <2>3, <2>4
<1>8. Steps(q, walk)
  <2> HIDE DEF walk
  <2>1. walk[0] = q.name
    BY <1>0, <1>6
  <2>2. ASSUME NEW i \in 1..N PROVE walk[i] = Credentials!Link(q, walk[i - 1])
    <3>1. i \in 0..N /\ i # 0
      BY <1>0
    <3> QED BY <1>6, <3>1
  <2> QED BY <2>1, <2>2 DEF Steps
<1> HIDE DEF walk
<1> QED BY <1>7, <1>8

\* What a resolution is of.
Resolving(q, known) == \A seen \in SUBSET Names, n \in Names : known[<<seen, n>>] = Next1(q, known, seen, n)
Before(walk, k) == {walk[j] : j \in 0..(k - 1)}

LEMMA LinkIs ==
  ASSUME NEW q, NEW n, Linked(q), n \in Names, Credentials!Link(q, n) # None
  PROVE  /\ Credentials!Link(q, n) = q.aliyun[n].source /\ q.aliyun[n].source \in Names
         /\ q.aliyun[n].source # None /\ q.aliyun[n] # Credentials!NoProfile
         /\ Credentials!ModeOf(q.aliyun[n], q.env) = "ChainableRamRoleArn"
BY DEF Credentials!Link, Linked

\* One link: it resolves as the rest does, or to the end of a loop.
LEMMA LinkResolves ==
  ASSUME NEW q, Linked(q), NEW known, Resolving(q, known), NEW seen \in SUBSET Names, NEW n \in Names,
         n \notin seen, Credentials!Link(q, n) # None, known[<<seen, n>>].error \in {None, "Cycle"}
  PROVE  /\ q.aliyun[q.aliyun[n].source] # Credentials!NoProfile
         /\ known[<<seen, n>>] # Credentials!Invalid
         /\ known[<<seen, n>>] = Credentials!assumeRoleCredential(known[<<seen \cup {n}, q.aliyun[n].source>>],
                                                                  q.aliyun[n], q.env, "ChainableRamRoleArn")
<1> DEFINE s == q.aliyun[n].source
           r == known[<<seen, n>>]
<1>1. s \in Names /\ s # None /\ Credentials!ModeOf(q.aliyun[n], q.env) = "ChainableRamRoleArn"
  BY LinkIs
<1>2. r = Next1(q, known, seen, n)
  BY DEF Resolving
<1>3. r # Credentials!Invalid
  <2>1. Credentials!Invalid.error \in Credentials!Codes \ {"Cycle"} /\ None \notin Credentials!Codes
    BY InvalidFails, NamesAssumption DEF Refused
  <2> QED BY <2>1
<1> QED BY <1>1, <1>2, <1>3 DEF Next1

\* As long as the walk goes on and comes to nothing twice, the resolution
\* follows it.
Follows(q, walk, known, k) ==
  LET r == known[<<{}, q.name>>]
      s == known[<<Before(walk, k), walk[k]>>] IN
  /\ walk[k] \in Names /\ Before(walk, k) \in SUBSET Names /\ IsFiniteSet(Before(walk, k))
  /\ Cardinality(Before(walk, k)) = k
  /\ q.aliyun[q.name] # Credentials!NoProfile /\ r.error \in {None, "Cycle"} =>
       q.aliyun[walk[k]] # Credentials!NoProfile /\ s.error = r.error /\ (r.error = None => r.key = s.key)

LEMMA WalkFollows ==
  ASSUME NEW q, Linked(q), q.name \in Names, NEW walk, Steps(q, walk), NEW known, Resolving(q, known),
         NEW m \in 0..Cardinality(Names),
         \A j \in 0..(m - 1) : Credentials!Link(q, walk[j]) # None /\ walk[j] \notin Before(walk, j)
  PROVE  Follows(q, walk, known, m)
<1> DEFINE T == {k \in Nat : k <= m => Follows(q, walk, known, k)}
           N == Cardinality(Names)
<1>0. N \in Nat
  BY NamesAssumption, FS_CardinalityType
<1>1. 0 \in T
  <2>1. walk[0] = q.name
    BY DEF Steps
  <2>2. Before(walk, 0) = {}
    BY DEF Before
  <2>3. IsFiniteSet({}) /\ Cardinality({}) = 0
    BY FS_EmptySet
  <2>4. Follows(q, walk, known, 0)
    BY <2>1, <2>2, <2>3 DEF Follows
  <2> QED BY <2>4
<1>2. ASSUME NEW k \in Nat, k \in T PROVE k + 1 \in T
  <2> SUFFICES ASSUME k + 1 <= m PROVE Follows(q, walk, known, k + 1)
    OBVIOUS
  <2> DEFINE w == walk[k]
             s == q.aliyun[w].source
             seen == Before(walk, k)
             r == known[<<{}, q.name>>]
  <2>1. Follows(q, walk, known, k) /\ k \in 0..(m - 1)
    BY <1>0, <1>2
  <2>2. Credentials!Link(q, w) # None /\ w \notin seen
    BY <2>1
  <2>3. w \in Names /\ seen \in SUBSET Names /\ IsFiniteSet(seen) /\ Cardinality(seen) = k
    BY <2>1 DEF Follows
  <2>4. Credentials!Link(q, w) = s /\ s \in Names
    BY <2>2, <2>3, LinkIs
  <2>5. walk[k + 1] = s
    <3>1. k + 1 \in 1..N /\ (k + 1) - 1 = k
      BY <1>0
    <3> QED BY <2>4, <3>1 DEF Steps
  <2>6. Before(walk, k + 1) = seen \cup {w}
    <3>1. 0..((k + 1) - 1) = 0..(k - 1) \cup {k}
      OBVIOUS
    <3> QED BY <3>1 DEF Before
  <2>7. IsFiniteSet(seen \cup {w}) /\ Cardinality(seen \cup {w}) = k + 1
    BY <2>2, <2>3, FS_AddElement
  <2>8. ASSUME q.aliyun[q.name] # Credentials!NoProfile, r.error \in {None, "Cycle"}
        PROVE  /\ q.aliyun[s] # Credentials!NoProfile /\ known[<<seen \cup {w}, s>>].error = r.error
               /\ r.error = None => r.key = known[<<seen \cup {w}, s>>].key
    <3> DEFINE here == known[<<seen, w>>]
    <3>1. here.error = r.error /\ (r.error = None => r.key = here.key)
      BY <2>1, <2>8 DEF Follows
    <3>2. here.error \in {None, "Cycle"}
      BY <2>8, <3>1
    <3>3. /\ q.aliyun[s] # Credentials!NoProfile /\ known[<<seen \cup {w}, s>>].error = here.error
          /\ here.error = None => here.key = known[<<seen \cup {w}, s>>].key
      <4> DEFINE rest == known[<<seen \cup {w}, s>>]
      <4>1. /\ q.aliyun[s] # Credentials!NoProfile /\ here # Credentials!Invalid
            /\ here = Credentials!assumeRoleCredential(rest, q.aliyun[w], q.env, "ChainableRamRoleArn")
        <5> HIDE DEF seen, w
        <5> QED BY <2>2, <2>3, <3>2, LinkResolves
      <4> HIDE DEF here, rest, s
      <4>2. rest.error = here.error /\ (here.error = None => here.key = rest.key)
        BY <4>1, AssumeIs
      <4> QED BY <4>1, <4>2 DEF rest
    <3> QED BY <3>1, <3>3
  <2> HIDE DEF seen, w, s, r
  <2>9. walk[k + 1] \in Names /\ Before(walk, k + 1) \in SUBSET Names
    BY <2>3, <2>4, <2>5, <2>6
  <2> QED BY <2>5, <2>6, <2>7, <2>8, <2>9 DEF Follows, r
<1>3. \A k \in Nat : k \in T
  <2> HIDE DEF T
  <2>1. \A k \in Nat : k \in T => k + 1 \in T
    BY <1>2
  <2> QED BY <1>1, <2>1, Induction
<1>4. m \in Nat /\ m <= m
  BY <1>0
<1> QED BY <1>3, <1>4

\* The walk ends, or comes back to where it was.
LEMMA WalkEnds ==
  ASSUME NEW q, Linked(q), q.name \in Names, NEW walk, Steps(q, walk), NEW known, Resolving(q, known)
  PROVE  \E m \in 0..Cardinality(Names) :
           /\ \A j \in 0..(m - 1) : Credentials!Link(q, walk[j]) # None
           /\ Follows(q, walk, known, m)
           /\ Credentials!Link(q, walk[m]) = None \/ walk[m] \in Before(walk, m)
<1> DEFINE N == Cardinality(Names)
           T == {k \in 0..N : Credentials!Link(q, walk[k]) = None \/ walk[k] \in Before(walk, k)}
<1>0. IsFiniteSet(Names) /\ N \in Nat
  BY NamesAssumption, FS_CardinalityType
<1>1. T # {}
  <2> SUFFICES ASSUME T = {} PROVE FALSE
    OBVIOUS
  <2>1. \A j \in 0..N : Credentials!Link(q, walk[j]) # None /\ walk[j] \notin Before(walk, j)
    OBVIOUS
  <2>2. N \in 0..N /\ \A j \in 0..(N - 1) : j \in 0..N
    BY <1>0
  <2> HIDE DEF T
  <2>3. Follows(q, walk, known, N)
    BY <2>1, <2>2, WalkFollows
  <2>4. walk[N] \in Names /\ Before(walk, N) \in SUBSET Names /\ Cardinality(Before(walk, N)) = N
    BY <2>3 DEF Follows
  <2>5. Before(walk, N) = Names
    BY <1>0, <2>4, FS_Subset
  <2> QED BY <2>1, <2>2, <2>4, <2>5
<1>2. T \subseteq Nat
  BY <1>0
<1>3. PICK m \in T : \A k \in T : m <= k
  <2> HIDE DEF T
  <2> QED BY <1>1, <1>2, LeastNumber
<1>4. ASSUME NEW j \in 0..(m - 1) PROVE Credentials!Link(q, walk[j]) # None /\ walk[j] \notin Before(walk, j)
  <2>1. j \in 0..N /\ ~(m <= j)
    BY <1>0
  <2> QED BY <1>3, <2>1
<1>5. Follows(q, walk, known, m)
  BY <1>4, WalkFollows
<1> QED BY <1>4, <1>5

\* What CredentialAssumption says of a question.
Placed(q) ==
  /\ q.name \in Names /\ q.env.name = Env /\ Linked(q)
  /\ \A n \in Names : q.aliyun[n] = Credentials!NoProfile \/ q.aliyun[n].name = n

LEMMA ChainIsAssumed ==
  ASSUME NEW q, Placed(q)
  PROVE  Credentials!ChainAssumesItsRole(q, Credentials!resolveOpenAPIProfile(q))
<1> SUFFICES ASSUME Credentials!FromAliyun(q)
             PROVE  Credentials!ChainAssumesItsRole(q, Credentials!resolveOpenAPIProfile(q))
  BY DEF Credentials!ChainAssumesItsRole
<1> DEFINE r == Credentials!resolveAliyunProfileCredential(q.aliyun, q.name, q.env, q.disabled)
           N == Cardinality(Names)
<1>1. Credentials!resolveOpenAPIProfile(q) = r
  BY DEF Credentials!resolveOpenAPIProfile, Credentials!FromAliyun
<1>2. q.aliyun[q.name] # Credentials!NoProfile /\ Linked(q) /\ q.name \in Names /\ q.env.name = Env
  BY DEF Credentials!FromAliyun, Placed
<1>3. PICK known : r = known[<<{}, q.name>>] /\ Resolving(q, known)
  <2> HIDE DEF r
  <2>1. \E known : r = known[<<{}, q.name>>] /\ Resolving(q, known)
    BY <1>2, ResolveIs DEF Resolving, r
  <2> QED BY <2>1
<1> HIDE DEF r
<1>4. PICK walk : Steps(q, walk) /\ Credentials!Chain(q) = {walk[i] : i \in 0..N} \ {None}
  BY ChainIs
<1>5. PICK m \in 0..N :
        /\ \A j \in 0..(m - 1) : Credentials!Link(q, walk[j]) # None
        /\ Follows(q, walk, known, m)
        /\ Credentials!Link(q, walk[m]) = None \/ walk[m] \in Before(walk, m)
  BY <1>2, <1>3, <1>4, WalkEnds
<1> DEFINE last == walk[m]
           s == known[<<Before(walk, m), last>>]
<1>6. /\ last \in Names /\ Before(walk, m) \in SUBSET Names
      /\ r.error \in {None, "Cycle"} => s.error = r.error /\ (r.error = None => r.key = s.key)
  BY <1>2, <1>3, <1>5 DEF Follows
<1>7. s = Next1(q, known, Before(walk, m), last)
  BY <1>3, <1>6 DEF Resolving
<1>8. None \notin Names /\ None \notin Credentials!Codes /\ N \in Nat /\ Env \notin Names /\ Env # None
  BY NamesAssumption, FS_CardinalityType
<1> HIDE DEF s, N
\* It comes back to where it was: a loop, and no credential.
<1>9. ASSUME last \in Before(walk, m)
      PROVE  Credentials!Loops(q) /\ r.error # None
  <2>1. s.error = "Cycle"
    BY <1>7, <1>9 DEF Next1, Credentials!Cycle, Credentials!Failure
  <2>2. r.error # None
    BY <1>6, <1>8, <2>1 DEF Credentials!Codes
  <2> DEFINE T == {k \in Nat : k <= N => walk[k] \in Before(walk, m)}
  <2>3. \A n \in Before(walk, m) : Credentials!Link(q, n) # None
    BY <1>5 DEF Before
  <2>4. ASSUME NEW n \in Before(walk, m) PROVE Credentials!Link(q, n) \in Before(walk, m)
    <3>1. PICK j \in 0..(m - 1) : n = walk[j]
      BY DEF Before
    <3>2. j + 1 \in 1..N /\ (j + 1) - 1 = j /\ (j + 1 = m \/ j + 1 \in 0..(m - 1))
      BY <1>8
    <3>3. walk[j + 1] = Credentials!Link(q, n)
      BY <1>4, <3>1, <3>2 DEF Steps, N
    <3>4. walk[j + 1] \in Before(walk, m)
      BY <1>9, <3>2 DEF Before
    <3> QED BY <3>3, <3>4
  <2>5. 0 \in T
    <3>1. m # 0
      BY <1>9 DEF Before
    <3>2. 0 \in 0..(m - 1)
      BY <1>8, <3>1
    <3>3. walk[0] \in Before(walk, m)
      BY <3>2 DEF Before
    <3> QED BY <3>3
  <2>6. ASSUME NEW k \in Nat, k \in T PROVE k + 1 \in T
    <3> SUFFICES ASSUME k + 1 <= N PROVE walk[k + 1] \in Before(walk, m)
      OBVIOUS
    <3>1. k <= N /\ k + 1 \in 1..N /\ (k + 1) - 1 = k
      BY <1>8
    <3>2. walk[k] \in Before(walk, m) /\ walk[k + 1] = Credentials!Link(q, walk[k])
      BY <1>4, <2>6, <3>1 DEF Steps, N
    <3> QED BY <2>4, <3>2
  <2>7. \A k \in Nat : k \in T
    <3> HIDE DEF T
    <3>1. \A k \in Nat : k \in T => k + 1 \in T
      BY <2>6
    <3> QED BY <2>5, <3>1, Induction
  <2>8. \A k \in 0..N : walk[k] \in Before(walk, m)
    BY <1>8, <2>7
  <2>9. Credentials!Loops(q)
    BY <1>4, <2>3, <2>8 DEF Credentials!Loops
  <2> QED BY <2>2, <2>9
\* It ends: no loop, and the key is of its end.
<1>10. ASSUME last \notin Before(walk, m)
       PROVE  /\ ~Credentials!Loops(q) /\ last \in Credentials!Chain(q) /\ Credentials!Link(q, last) = None
              /\ r.error # "Cycle"
              /\ r.error = None => {r.key.id, r.key.secret, r.key.token} \subseteq {last, Env, None}
  <2>1. Credentials!Link(q, last) = None
    BY <1>5, <1>10
  <2>2. last \in Credentials!Chain(q)
    BY <1>4, <1>6, <1>8
  <2>3. ~Credentials!Loops(q)
    BY <2>1, <2>2 DEF Credentials!Loops
  <2> DEFINE place == q.aliyun[last]
             way == Credentials!ModeOf(place, q.env)
  <2>4. ASSUME way # "ChainableRamRoleArn"
        PROVE  Refused(s) \/ MadeOf(s, Kept(way), {last, Env, None})
    <3>1. s = Credentials!Unchained(place, way, q.env, q.disabled)
      BY <1>7, <1>10, <2>4 DEF Next1
    <3>2. place = Credentials!NoProfile \/ place.name = last
      BY <1>6 DEF Placed
    <3> HIDE DEF place, way, last
    <3> QED BY <1>2, <2>4, <3>1, <3>2, UnchainedIs
  <2>5. ASSUME way = "ChainableRamRoleArn", r.error \in {None, "Cycle"} PROVE Refused(s)
    <3>1. place # Credentials!NoProfile
      BY <1>2, <1>3, <1>5, <2>5 DEF Follows
    <3>2. place.source = None
      BY <1>6, <1>8, <2>1, <2>5, <3>1 DEF Credentials!Link
    <3>3. s = Credentials!Invalid
      BY <1>7, <1>10, <2>5, <3>2 DEF Next1
    <3> QED BY <3>3, InvalidFails
  <2>6. r.error \in {None, "Cycle"} => Refused(s) \/ MadeOf(s, Kept(way), {last, Env, None})
    BY <2>4, <2>5
  <2> HIDE DEF way, place
  <2>7. r.error \in {None, "Cycle"} => s.error = None /\ {s.key.id, s.key.secret, s.key.token} \subseteq {last, Env, None}
    <3>1. Refused(s) => s.error \notin {None, "Cycle"}
      BY <1>8 DEF Refused
    <3> QED BY <1>6, <2>6, <3>1 DEF MadeOf
  <2>8. "Cycle" # None
    BY <1>8 DEF Credentials!Codes
  <2>9. r.error # "Cycle"
    BY <1>6, <2>7, <2>8
  <2>10. r.error = None => {r.key.id, r.key.secret, r.key.token} \subseteq {last, Env, None}
    <3> SUFFICES ASSUME r.error = None PROVE {r.key.id, r.key.secret, r.key.token} \subseteq {last, Env, None}
      OBVIOUS
    <3>1. r.key = s.key /\ {s.key.id, s.key.secret, s.key.token} \subseteq {last, Env, None}
      BY <1>6, <2>7
    <3> QED BY <3>1
  <2> QED BY <2>1, <2>2, <2>3, <2>9, <2>10
\* The role is that of the profile one starts from.
<1>11. ASSUME r.error = None, Credentials!Link(q, q.name) # None
       PROVE  /\ r.role \in {q.name, Env} /\ r.mode = "ChainableRamRoleArn"
              /\ r.account = IF r.role = Env THEN q.env.account ELSE q.aliyun[q.name].account
  <2> DEFINE place == q.aliyun[q.name]
  <2> DEFINE seen == {}
             here == known[<<seen, q.name>>]
  <2>1. seen \in SUBSET Names /\ q.name \notin seen /\ here = r
    BY <1>3
  <2> HIDE DEF seen
  <2>2. /\ r.mode = "ChainableRamRoleArn" /\ r.role # None
        /\ r.role = Credentials!First(Credentials!Value(place, "ram_role_arn"),
                                      Credentials!Value(q.env, "ram_role_arn"))
        /\ r.account = Credentials!ArnAccount(place, q.env, "ram_role_arn")
    <3>1. here.error \in {None, "Cycle"} /\ here.error = None
      BY <1>11, <2>1
    <3> DEFINE rest == known[<<seen \cup {q.name}, place.source>>]
    <3>2. here # Credentials!Invalid
          /\ here = Credentials!assumeRoleCredential(rest, place, q.env, "ChainableRamRoleArn")
      BY <1>2, <1>3, <1>11, <2>1, <3>1, LinkResolves
    <3> HIDE DEF here, rest, place
    <3>3. /\ here.mode = "ChainableRamRoleArn" /\ here.role # None
          /\ here.role = Credentials!First(Credentials!Value(place, "ram_role_arn"),
                                           Credentials!Value(q.env, "ram_role_arn"))
          /\ here.account = Credentials!ArnAccount(place, q.env, "ram_role_arn")
      BY <3>1, <3>2, AssumeIs
    <3> QED BY <2>1, <3>3
  <2>3. place.name = q.name /\ q.name # None /\ q.name # Env
    BY <1>2, <1>8 DEF Placed
  <2> HIDE DEF place
  <2>4. CASE "ram_role_arn" \in place.has
    <3>1. r.role = q.name /\ r.account = place.account
      BY <2>2, <2>3, <2>4 DEF Credentials!First, Credentials!Value, Credentials!ArnAccount
    <3> QED BY <2>2, <2>3, <3>1 DEF place
  <2>5. CASE "ram_role_arn" \notin place.has
    <3>1. r.role = Env /\ r.account = q.env.account
      BY <1>2, <2>2, <2>5 DEF Credentials!First, Credentials!Value, Credentials!ArnAccount
    <3> QED BY <2>2, <3>1
  <2> QED BY <2>4, <2>5
<1> QED
  <2>1. Credentials!Loops(q) => ~Credentials!Resolved(r)
    BY <1>9, <1>10 DEF Credentials!Resolved
  <2>2. r.error = "Cycle" => Credentials!Loops(q)
    BY <1>9, <1>10
  <2>3. ASSUME Credentials!Resolved(r), Credentials!Link(q, q.name) # None
        PROVE  \E end \in Credentials!Chain(q) :
                 Credentials!Link(q, end) = None /\ Credentials!KeyHolders(r) \subseteq {end, Env}
    <3>1. r.error = None
      BY <2>3 DEF Credentials!Resolved
    <3>2. last \notin Before(walk, m)
      BY <1>9, <3>1
    <3>3. Credentials!KeyHolders(r) \subseteq {last, Env}
      BY <1>10, <3>1, <3>2 DEF Credentials!KeyHolders
    <3> QED BY <1>10, <3>2, <3>3
  <2> QED BY <1>1, <1>11, <2>1, <2>2, <2>3 DEF Credentials!ChainAssumesItsRole, Credentials!Resolved

-----------------------------------------------------------------------------
(* Where a credential comes from.                                          *)

\* Of the environment alone.
LEMMA EnvironmentIs ==
  ASSUME NEW env, env.name = Env, NEW disabled
  PROVE  Credentials!Holders(Credentials!resolveEnvironmentCredential(env, disabled)) \subseteq {Env}
<1> DEFINE r == Credentials!resolveEnvironmentCredential(env, disabled)
           key == Credentials!KeyOf(Credentials!NoProfile, env)
           static == Credentials!staticCredentialFromValues(key, "AK")
           Fine(c) == {c.key.id, c.key.secret, c.key.token, c.role} \subseteq {Env, None}
<1>1. \A f : Credentials!Value(Credentials!NoProfile, f) = None /\ Credentials!Value(env, f) \in {Env, None}
  BY DEF Credentials!Value, Credentials!NoProfile, Credentials!Place
<1>2. {key.id, key.secret, key.token} \subseteq {Env, None}
  BY <1>1 DEF Credentials!KeyOf, Credentials!First
<1> HIDE DEF key
<1>3. ASSUME NEW code PROVE Fine(Credentials!Failure(code))
  BY DEF Credentials!Failure, Credentials!NoKey
<1>4. Fine(Credentials!Invalid)
  BY <1>3 DEF Credentials!Invalid
<1>5. ASSUME NEW way, NEW role \in {Env, None}, NEW account
      PROVE  Fine(Credentials!Credential(way, Credentials!NoKey, role, account))
  BY DEF Credentials!Credential, Credentials!NoKey
<1>6. Fine(static)
  <2>1. \/ static = Credentials!Failure("MissingCredentials")
        \/ static = Credentials!Credential(IF key.token # None THEN "StsToken" ELSE "AK", key, None, None)
    BY DEF Credentials!staticCredentialFromValues
  <2>2. \A way : Fine(Credentials!Credential(way, key, None, None))
    BY <1>2 DEF Credentials!Credential
  <2> QED BY <1>3, <2>1, <2>2
<1>7. Fine(Credentials!assumeRoleCredential(static, Credentials!NoProfile, env, "RamRoleArn"))
  <2> DEFINE c == Credentials!assumeRoleCredential(static, Credentials!NoProfile, env, "RamRoleArn")
             role == Credentials!First(Credentials!Value(Credentials!NoProfile, "ram_role_arn"),
                                       Credentials!Value(env, "ram_role_arn"))
  <2> SUFFICES Fine(c)
    OBVIOUS
  <2>1. role \in {Env, None}
    BY <1>1 DEF Credentials!First
  <2> HIDE DEF static
  <2>2. c = static \/ c = Credentials!Invalid \/ (c.key = static.key /\ c.role = role)
    BY AssumeIs
  <2> HIDE DEF c, role
  <2>3. CASE c.key = static.key /\ c.role = role
    BY <1>6, <2>1, <2>3
  <2> QED BY <1>4, <1>6, <2>2, <2>3
<1>8. Fine(Credentials!OIDC(Credentials!NoProfile, env))
  <2> DEFINE role == Credentials!First(Credentials!Value(Credentials!NoProfile, "ram_role_arn"),
                                       Credentials!Value(env, "ram_role_arn"))
  <2>1. role \in {Env, None}
    BY <1>1 DEF Credentials!First
  <2>2. \/ Credentials!OIDC(Credentials!NoProfile, env) = Credentials!Invalid
        \/ \E account : Credentials!OIDC(Credentials!NoProfile, env)
                          = Credentials!Credential("OIDC", Credentials!NoKey, role, account)
    BY DEF Credentials!OIDC, Credentials!RoleFields
  <2> HIDE DEF role, Fine
  <2> QED BY <1>4, <1>5, <2>1, <2>2
<1>9. \A way : Fine(Credentials!Credential(way, Credentials!NoKey, None, None))
  BY <1>5
<1> DEFINE assumed == Credentials!assumeRoleCredential(static, Credentials!NoProfile, env, "RamRoleArn")
<1> HIDE DEF static, Fine, assumed
<1>10. r \in {static, assumed, Credentials!Invalid, Credentials!OIDC(Credentials!NoProfile, env),
              Credentials!Credential("EcsRamRole", Credentials!NoKey, None, None),
              Credentials!Failure("CredentialSourceDisabled"),
              Credentials!Credential("CredentialsURI", Credentials!NoKey, None, None),
              Credentials!Credential("BearerToken", Credentials!NoKey, None, None),
              Credentials!Failure("MissingCredentials")}
  BY DEF Credentials!resolveEnvironmentCredential, static, assumed, key
<1> HIDE DEF r
<1>11. Fine(r)
  <2>1. Fine(assumed)
    BY <1>7 DEF assumed
  <2> QED BY <1>3, <1>4, <1>6, <1>8, <1>9, <1>10, <2>1
<1>12. Credentials!Holders(r) \subseteq {Env}
  BY <1>11 DEF Fine, Credentials!Holders, Credentials!KeyHolders
<1> QED BY <1>12 DEF r

LEMMA FirstProfileIs ==
  ASSUME NEW q, Placed(q), Credentials!FromAliyun(q)
  PROVE  LET r == Credentials!resolveOpenAPIProfile(q) IN
         LET way == Credentials!ModeOf(q.aliyun[q.name], q.env) IN
         r.error = None => way # None /\ r.mode \in Kept(way)
<1> DEFINE r == Credentials!resolveAliyunProfileCredential(q.aliyun, q.name, q.env, q.disabled)
           place == q.aliyun[q.name]
           way == Credentials!ModeOf(place, q.env)
<1>1. Credentials!resolveOpenAPIProfile(q) = r
  BY DEF Credentials!resolveOpenAPIProfile, Credentials!FromAliyun
<1>2. Linked(q) /\ q.name \in Names /\ q.env.name = Env
      /\ (place = Credentials!NoProfile \/ place.name = q.name)
  BY DEF Placed
<1>3. PICK known : r = known[<<{}, q.name>>] /\ Resolving(q, known)
  <2> HIDE DEF r
  <2>1. \E known : r = known[<<{}, q.name>>] /\ Resolving(q, known)
    BY <1>2, ResolveIs DEF Resolving, r
  <2> QED BY <2>1
<1> HIDE DEF r
<1>5. r = Next1(q, known, {}, q.name)
  <2>1. {} \in SUBSET Names
    OBVIOUS
  <2> QED BY <1>2, <1>3, <2>1 DEF Resolving
<1>6. CASE way # "ChainableRamRoleArn"
  <2>1. r = Credentials!Unchained(place, way, q.env, q.disabled)
    BY <1>5, <1>6 DEF Next1
  <2> HIDE DEF way, place
  <2>2. Refused(r) \/ MadeOf(r, Kept(way), {q.name, Env, None})
    BY <1>2, <1>6, <2>1, UnchainedIs
  <2>3. r.error = None => r.mode \in Kept(way)
    BY <2>2, NamesAssumption DEF Refused, MadeOf
  <2>4. way = None => r.error # None
    <3>1. way = None => r = Credentials!Failure("MissingCredentials")
      BY <2>1, NamesAssumption DEF Credentials!Unchained, Credentials!Modes
    <3> QED BY <3>1, FailureFails, NamesAssumption DEF Refused, Credentials!Codes
  <2> QED BY <1>1, <2>3, <2>4 DEF place, way
<1>7. CASE way = "ChainableRamRoleArn"
  <2> DEFINE rest == known[<<{} \cup {q.name}, place.source>>]
  <2>1. r = Credentials!Invalid \/ r = Credentials!assumeRoleCredential(rest, place, q.env, "ChainableRamRoleArn")
    BY <1>5, <1>7 DEF Next1
  <2> HIDE DEF rest, place, way
  <2>2. Credentials!Invalid.error # None
    BY InvalidFails, NamesAssumption DEF Refused
  <2>3. r.error = None => r.mode = "ChainableRamRoleArn"
    BY <2>1, <2>2, AssumeIs
  <2>4. way # None
    BY <1>7, NamesAssumption DEF Credentials!Modes
  <2> QED BY <1>1, <1>7, <2>3, <2>4 DEF Kept, place, way
<1> QED BY <1>6, <1>7

\* Without a key a profile that declares no mode has one that it suggests.
LEMMA SuggestedIs ==
  ASSUME NEW place, NEW env,
         LET key == Credentials!KeyOf(place, env) IN None \in {key.id, key.secret}
  PROVE  Credentials!inferCredentialMode(place, env) \in Credentials!Suggested(place) \cup {None}
<1> DEFINE marked == {i \in DOMAIN Credentials!Marks : Credentials!Marks[i][1] \in place.has}
           least == CHOOSE i \in marked : \A j \in marked : i <= j
<1>1. DOMAIN Credentials!Marks = 1..7
  BY DEF Credentials!Marks
<1>2. CASE marked = {}
  BY <1>2 DEF Credentials!inferCredentialMode
<1>3. CASE marked # {}
  <2>1. marked \subseteq 1..7
    BY <1>1
  <2>2. Credentials!inferCredentialMode(place, env) = Credentials!Marks[least][2]
    BY <1>3 DEF Credentials!inferCredentialMode
  <2>3. Credentials!Suggested(place) = {Credentials!Marks[i][2] : i \in marked}
    BY DEF Credentials!Suggested
  <2> HIDE DEF marked
  <2>4. \E i \in marked : \A j \in marked : i <= j
    <3> SUFFICES ASSUME \A i \in marked : \E j \in marked : j < i PROVE FALSE
      BY <2>1
    <3>1. 1 \notin marked /\ 2 \notin marked
      BY <2>1
    <3>2. 3 \notin marked /\ 4 \notin marked
      BY <2>1, <3>1
    <3>3. 5 \notin marked /\ 6 \notin marked /\ 7 \notin marked
      BY <2>1, <3>1, <3>2
    <3>4. PICK i \in marked : TRUE
      BY <1>3
    <3>5. i = 1 \/ i = 2 \/ i = 3 \/ i = 4 \/ i = 5 \/ i = 6 \/ i = 7
      BY <2>1, <3>4
    <3> QED BY <3>1, <3>2, <3>3, <3>4, <3>5
  <2>5. least \in marked
    BY <2>4
  <2> QED BY <2>2, <2>3, <2>5
<1> QED BY <1>2, <1>3

LEMMA StaysThere ==
  ASSUME NEW q, Placed(q)
  PROVE  Credentials!StaysWithItsSource(q, Credentials!resolveOpenAPIProfile(q))
<1> DEFINE r == Credentials!resolveOpenAPIProfile(q)
<1> DEFINE place == q.aliyun[q.name]
           way == Credentials!ModeOf(place, q.env)
<1>1. ASSUME Credentials!FromAliyun(q), Credentials!Resolved(r)
      PROVE  r.mode \in IF place.mode # None THEN Credentials!ModesOf(place.mode)
                        ELSE IF Credentials!KeyAtHand(q) THEN {"AK", "StsToken", "RamRoleArn"}
                        ELSE Credentials!Suggested(place)
  <2> HIDE DEF r, way, place
  <2>1. r.mode \in Kept(way) /\ way # None
    BY <1>1, FirstProfileIs DEF Credentials!Resolved, r, way, place
  <2>2. CASE place.mode # None
    BY <2>1, <2>2 DEF Kept, Credentials!ModesOf, Credentials!ModeOf, way
  <2>3. CASE place.mode = None
    <3>1. way = Credentials!inferCredentialMode(place, q.env)
      BY <2>3 DEF Credentials!ModeOf, way
    <3>2. CASE Credentials!KeyAtHand(q)
      <4>1. way \in {"AK", "StsToken", "RamRoleArn"}
        BY <3>1, <3>2 DEF Credentials!inferCredentialMode, Credentials!KeyAtHand, place
      <4> QED BY <2>1, <2>3, <3>2, <4>1 DEF Kept
    <3>3. CASE ~Credentials!KeyAtHand(q)
      <4>1. way \in Credentials!Suggested(place) \cup {None}
        BY <3>1, <3>3, SuggestedIs DEF Credentials!KeyAtHand, place
      <4>2. "AK" \notin Credentials!Suggested(place)
        BY DEF Credentials!Suggested, Credentials!Marks
      <4> QED BY <2>1, <2>3, <3>3, <4>1, <4>2 DEF Kept
    <3> QED BY <3>2, <3>3
  <2> QED BY <2>2, <2>3
<1>2. ASSUME ~q.ignore, Credentials!Named(q), q.ecctl = Credentials!NoProfile,
             q.aliyun[q.name] = Credentials!NoProfile
      PROVE  ~Credentials!Resolved(r)
  <2>1. ~Credentials!profileIsNativeOAuth(q) /\ ~Credentials!profileHasStaticCredentialOverride(q)
    BY <1>2 DEF Credentials!profileIsNativeOAuth, Credentials!profileHasStaticCredentialOverride,
                Credentials!NoProfile, Credentials!Place
  <2>2. r = Credentials!Failure("ProfileNotFound")
    BY <1>2, <2>1 DEF Credentials!resolveOpenAPIProfile
  <2>3. Credentials!Failure("ProfileNotFound").error # None
    BY NamesAssumption DEF Credentials!Failure, Credentials!Codes
  <2> QED BY <2>2, <2>3 DEF Credentials!Resolved
<1>3. ASSUME q.ignore PROVE Credentials!Holders(r) \subseteq {Env}
  <2>1. r = Credentials!resolveEnvironmentCredential(q.env, q.disabled)
    BY <1>3 DEF Credentials!resolveOpenAPIProfile
  <2> HIDE DEF r
  <2> QED BY <2>1, EnvironmentIs DEF Placed
<1>4. ASSUME ~q.ignore, Credentials!profileIsNativeOAuth(q) PROVE Credentials!Holders(r) = {}
  <2>1. r = Credentials!Provider("oauth_site_type", q.ecctl, "OAuth", FALSE)
    BY <1>4 DEF Credentials!resolveOpenAPIProfile
  <2>2. r \in {Credentials!Invalid, Credentials!Credential("OAuth", Credentials!NoKey, None, None)}
    BY <2>1 DEF Credentials!Provider
  <2>3. r.role = None /\ r.key = Credentials!NoKey
    BY <2>2 DEF Credentials!Invalid, Credentials!Failure, Credentials!Credential
  <2> HIDE DEF r
  <2> QED BY <2>3 DEF Credentials!Holders, Credentials!KeyHolders, Credentials!NoKey
<1> HIDE DEF r
<1>5. Credentials!StaysWithItsSource(q, r)
  BY <1>1, <1>2, <1>3, <1>4 DEF Credentials!StaysWithItsSource, place
<1> QED BY <1>5 DEF r

\* The question stays the one that was asked, and its answer is the code's.
Credited ==
  about = "credential" =>
    /\ \E questions \in CredentialQuestions : question \in questions
    /\ answer \in {<<>>, <<Credentials!resolveOpenAPIProfile(question)>>}

\* A credential comes from where the profile says, but for a profile without a
\* mode, which a whole key pair, were it only exported, takes from the source it
\* names; and with whatever chain of profiles: the chain assumes the selected one's role with a key of its end,
\* or it is a loop and fails (resolveOpenAPIProfile,
\* resolveAliyunProfileCredentialWithCache).
THEOREM CredentialsKeepTheirSource == ChoiceSpec => []SourceIsTheProfiles
<1>1. ChoiceInit => Credited
  BY DEF ChoiceInit, Asks, Credited
<1>2. Credited /\ [ChoiceNext]_choiceVars => Credited'
  <2> SUFFICES ASSUME Credited, [ChoiceNext]_choiceVars PROVE Credited'
    OBVIOUS
  <2>1. UNCHANGED <<about, question>>
    BY DEF ChoiceNext, ResolveCredential, CompareMetadata, MatchItems, ShowResult, ReadPages, Reply,
           choiceVars, asking
  <2>2. ASSUME about = "credential"
        PROVE  UNCHANGED answer \/ answer' = <<Credentials!resolveOpenAPIProfile(question)>>
    BY <2>2 DEF ChoiceNext, ResolveCredential, CompareMetadata, MatchItems, ShowResult, ReadPages, Reply,
                choiceVars, asking
  <2> QED BY <2>1, <2>2 DEF Credited
<1>3. Credited => SourceIsTheProfiles
  <2> SUFFICES ASSUME Credited, about = "credential", answer # <<>> PROVE SourceIsTheProfiles
    BY DEF SourceIsTheProfiles, Answered
  <2>1. PICK questions \in CredentialQuestions : question \in questions
    BY DEF Credited
  <2>2. Placed(question)
    BY <2>1, CredentialAssumption DEF Placed, Linked
  <2>3. answer = <<Credentials!resolveOpenAPIProfile(question)>>
    BY DEF Credited
  <2>4. answer[1] = Credentials!resolveOpenAPIProfile(question)
    BY <2>3
  <2>5. Credentials!StaysWithItsSource(question, answer[1]) /\ Credentials!ChainAssumesItsRole(question, answer[1])
    BY <2>2, <2>4, StaysThere, ChainIsAssumed
  <2> QED BY <2>5 DEF SourceIsTheProfiles
<1> QED BY <1>1, <1>2, <1>3, PTL DEF ChoiceSpec

-----------------------------------------------------------------------------
(* Two revisions of an API's metadata.                                     *)

\* The first k keys of a path.
Pre(path, k) == SubSeq(path, 1, k)

LEMMA PreIs ==
  ASSUME NEW S, NEW path \in Seq(S), NEW k \in 1..Len(path)
  PROVE  /\ Pre(path, k) \in Seq(S) /\ Len(Pre(path, k)) = k /\ Pre(path, k) # <<>>
         /\ \A i \in 1..k : Pre(path, k)[i] = path[i]
         /\ k > 1 => Metadata!Parent(Pre(path, k)) = Pre(path, k - 1)
         /\ Pre(path, Len(path)) = path
<1>1. Len(path) \in Nat /\ path = [i \in 1..Len(path) |-> path[i]]
  OBVIOUS
<1>2. \A n \in 0..Len(path) : Pre(path, n) = [i \in 1..n |-> path[i]] /\ Len(Pre(path, n)) = n
  BY <1>1 DEF Pre
<1>3. Len(Pre(path, k)) = k /\ k \in Nat /\ k <= Len(path)
  BY <1>1, <1>2
<1>4. Pre(path, k) \in Seq(S)
  BY <1>1 DEF Pre
<1>5. Pre(path, k) # <<>>
  BY <1>3
<1>6. \A i \in 1..k : Pre(path, k)[i] = path[i]
  BY <1>2, <1>3
<1>7. ASSUME k > 1 PROVE Metadata!Parent(Pre(path, k)) = Pre(path, k - 1)
  <2> DEFINE p == Pre(path, k)
             n == k - 1
  <2>1. Metadata!Parent(p) = SubSeq(p, 1, n)
    BY <1>3 DEF Metadata!Parent
  <2>2. SubSeq(p, 1, n) = [i \in 1..n |-> p[i]]
    <3> HIDE DEF p
    <3>1. p \in Seq(S) /\ Len(p) = k
      BY <1>3, <1>4 DEF p
    <3> QED BY <1>3, <1>7, <3>1
  <2>3. \A i \in 1..n : p[i] = path[i]
    BY <1>6
  <2>4. Pre(path, n) = [i \in 1..n |-> path[i]]
    BY <1>2, <1>3, <1>7
  <2> HIDE DEF p, n
  <2>5. [i \in 1..n |-> p[i]] = [i \in 1..n |-> path[i]]
    BY <2>3
  <2> QED BY <2>1, <2>2, <2>4, <2>5 DEF p, n
<1>8. Pre(path, Len(path)) = path
  <2> DEFINE n == Len(path)
  <2>1. n \in 0..n /\ path = [i \in 1..n |-> path[i]]
    BY <1>1
  <2>2. Pre(path, n) = [i \in 1..n |-> path[i]]
    BY <1>2, <2>1
  <2> QED BY <2>1, <2>2
<1> QED BY <1>3, <1>4, <1>5, <1>6, <1>7, <1>8

LEMMA PathIs ==
  ASSUME NEW S, NEW path \in Seq(S), path # <<>>, NEW e
  PROVE  /\ Len(path \o <<e>>) = Len(path) + 1 /\ path \o <<e>> # <<>>
         /\ \A i \in 1..Len(path) : (path \o <<e>>)[i] = path[i]
         /\ Metadata!Last(path \o <<e>>) = e /\ Metadata!Parent(path \o <<e>>) = path
         /\ (path \o <<e>>)[1] = path[1] /\ Len(path) >= 1
<1> DEFINE p == path \o <<e>>
           n == Len(path)
           T == S \cup {e}
<1>1. n \in Nat /\ n >= 1 /\ p \in Seq(T) /\ Len(p) = n + 1 /\ p[n + 1] = e /\ \A i \in 1..n : p[i] = path[i]
  <2>1. path \in Seq(T) /\ e \in T
    OBVIOUS
  <2> HIDE DEF T
  <2> QED BY <2>1
<1>2. path = [i \in 1..n |-> path[i]]
  OBVIOUS
<1> HIDE DEF p, n
<1>3. SubSeq(p, 1, n) = [i \in 1..n |-> p[i]]
  BY <1>1
<1>4. Metadata!Parent(p) = path
  <2>1. Metadata!Parent(p) = SubSeq(p, 1, n)
    BY <1>1 DEF Metadata!Parent
  <2>2. [i \in 1..n |-> p[i]] = [i \in 1..n |-> path[i]]
    BY <1>1
  <2> QED BY <1>2, <1>3, <2>1, <2>2
<1>5. Metadata!Last(p) = e /\ p # <<>> /\ p[1] = path[1]
  BY <1>1 DEF Metadata!Last
<1> QED BY <1>1, <1>4, <1>5 DEF p, n

-----------------------------------------------------------------------------
\* What a document is, prose aside or not.
Tree(doc) ==
  \A p \in DOMAIN doc :
    /\ p \in Seq(STRING) /\ p # <<>> /\ doc[p] # {}
    /\ Len(p) > 1 => Metadata!Parent(p) \in DOMAIN doc /\ doc[Metadata!Parent(p)] = {"map"}

LEMMA LengthIs ==
  ASSUME NEW S, NEW p \in Seq(S), p # <<>>
  PROVE  Len(p) \in Nat /\ Len(p) >= 1 /\ (Len(p) # 1 => Len(p) > 1)
<1>1. Len(p) \in Nat /\ Len(p) # 0
  BY EmptySeq
<1>2. \A n \in Nat : n # 0 => n >= 1 /\ (n # 1 => n > 1)
  OBVIOUS
<1> QED BY <1>1, <1>2, Zenon

\* What a path goes through is an object.
LEMMA Ancestors ==
  ASSUME NEW doc, Tree(doc), NEW p \in DOMAIN doc, NEW k \in 1..(Len(p) - 1)
  PROVE  Pre(p, k) \in DOMAIN doc /\ doc[Pre(p, k)] = {"map"}
<1> DEFINE n == Len(p)
           T == {j \in Nat : j < n => Pre(p, n - j) \in DOMAIN doc /\ (j > 0 => doc[Pre(p, n - j)] = {"map"})}
<1>1. p \in Seq(STRING) /\ n \in Nat /\ n >= 1
  BY DEF Tree
<1>2. 0 \in T
  <2>1. n \in 1..n /\ n - 0 = n
    BY <1>1
  <2>2. Pre(p, n) = p
    BY <1>1, <2>1, PreIs
  <2> HIDE DEF n
  <2> QED BY <2>1, <2>2
<1>3. ASSUME NEW j \in Nat, j \in T PROVE j + 1 \in T
  <2> SUFFICES ASSUME j + 1 < n PROVE Pre(p, n - (j + 1)) \in DOMAIN doc /\ doc[Pre(p, n - (j + 1))] = {"map"}
    OBVIOUS
  <2> DEFINE i == n - j
  <2>1. i \in 1..n /\ i > 1 /\ j < n /\ n - (j + 1) = i - 1
    BY <1>1
  <2>2. Pre(p, i) \in DOMAIN doc
    BY <1>3, <2>1
  <2>3. Len(Pre(p, i)) = i /\ Metadata!Parent(Pre(p, i)) = Pre(p, i - 1)
    <3> HIDE DEF i
    <3> QED BY <1>1, <2>1, PreIs DEF n
  <2> HIDE DEF i, n
  <2> QED BY <2>1, <2>2, <2>3 DEF Tree
<1>4. \A j \in Nat : j \in T
  <2> HIDE DEF T
  <2>1. \A j \in Nat : j \in T => j + 1 \in T
    BY <1>3
  <2> QED BY <1>2, <2>1, Induction
<1>5. n - k \in Nat /\ n - k < n /\ n - k > 0 /\ n - (n - k) = k
  BY <1>1
<1>6. n - k \in T
  BY <1>4, <1>5
<1> QED BY <1>5, <1>6

\* Where two documents differ, there is a first key of the path where they do.
LEMMA FirstDifference ==
  ASSUME NEW b, Tree(b), NEW a, Tree(a), NEW p \in DOMAIN b \cup DOMAIN a,
         Metadata!At(b, p) # Metadata!At(a, p)
  PROVE  \E k \in 1..Len(p) :
           /\ Pre(p, k) \in Metadata!diffMetadataMaps(b, a)
           /\ Metadata!At(b, Pre(p, k)) # Metadata!At(a, Pre(p, k))
<1> DEFINE n == Len(p)
           T == {k \in 1..n : Metadata!At(b, Pre(p, k)) # Metadata!At(a, Pre(p, k))}
<1>1. p \in Seq(STRING) /\ n \in Nat /\ n >= 1
  BY DEF Tree
<1>2. n \in T
  <2>1. n \in 1..n
    BY <1>1
  <2>2. Pre(p, n) = p
    BY <1>1, <2>1, PreIs
  <2> QED BY <2>1, <2>2
<1>3. T \subseteq Nat
  BY <1>1
<1>4. PICK k \in T : \A j \in T : k <= j
  <2> HIDE DEF T
  <2> QED BY <1>2, <1>3, LeastNumber
<1> DEFINE x == Pre(p, k)
<1>5. k \in 1..n /\ Metadata!At(b, x) # Metadata!At(a, x)
  BY <1>4
<1>6. x \in DOMAIN b \cup DOMAIN a
  BY <1>5 DEF Metadata!At
<1>7. Len(x) = k /\ (k > 1 => Metadata!Parent(x) = Pre(p, k - 1))
  BY <1>1, <1>5, PreIs
<1>8. ASSUME k # 1 PROVE Metadata!BothMaps(b, a, Metadata!Parent(x))
  <2>1. k > 1 /\ k - 1 \in 1..n /\ k - 1 \in 1..(n - 1) /\ ~(k <= k - 1)
    BY <1>1, <1>5, <1>8
  <2>2. Metadata!At(b, Pre(p, k - 1)) = Metadata!At(a, Pre(p, k - 1))
    BY <1>4, <2>1
  <2>3. Metadata!At(b, Pre(p, k - 1)) = {"map"} \/ Metadata!At(a, Pre(p, k - 1)) = {"map"}
    <3>1. CASE p \in DOMAIN b
      <4>1. Pre(p, k - 1) \in DOMAIN b /\ b[Pre(p, k - 1)] = {"map"}
        BY <2>1, <3>1, Ancestors
      <4> QED BY <4>1 DEF Metadata!At
    <3>2. CASE p \in DOMAIN a
      <4>1. Pre(p, k - 1) \in DOMAIN a /\ a[Pre(p, k - 1)] = {"map"}
        BY <2>1, <3>2, Ancestors
      <4> QED BY <4>1 DEF Metadata!At
    <3> QED BY <3>1, <3>2
  <2> QED BY <1>7, <2>1, <2>2, <2>3 DEF Metadata!BothMaps, Metadata!IsMap
<1> HIDE DEF x
<1>9. x \in Metadata!diffMetadataMaps(b, a)
  BY <1>5, <1>6, <1>7, <1>8 DEF Metadata!diffMetadataMaps
<1> QED BY <1>5, <1>9 DEF x

-----------------------------------------------------------------------------
(* What is compared of a document is what is not prose.                    *)

LEMMA DocumentIs ==
  ASSUME NEW doc, Metadata!IsDocument(doc), NEW p \in DOMAIN doc
  PROVE  /\ p \in Seq(STRING) /\ p # <<>> /\ doc[p] # {} /\ Len(p) \in Nat /\ Len(p) >= 1
         /\ Len(p) = 1 => p[1] \in Metadata!Sections \/ Metadata!IsProse(doc, p)
         /\ Len(p) > 1 =>
              /\ Metadata!Parent(p) \in DOMAIN doc /\ doc[Metadata!Parent(p)] = {"map"}
              /\ p[Len(p) - 1] \in Metadata!Containers => doc[p] = {"map"}
              /\ p[Len(p) - 1] \notin Metadata!Containers /\ Metadata!Last(p) \in Metadata!ignoredMetadataKey
                   => doc[p] # {"map"}
              /\ p[1] = "parameters" /\ Metadata!Last(p) = "enum" => doc[p] # {"map"}
<1>1. p \in Seq(STRING) /\ p # <<>> /\ doc[p] # {}
  BY DEF Metadata!IsDocument, Metadata!Absent
<1>2. Len(p) \in Nat /\ Len(p) >= 1
  BY <1>1, LengthIs
<1>3. Len(p) = 1 => p[1] \in Metadata!Sections \/ Metadata!IsProse(doc, p)
  BY DEF Metadata!IsDocument
<1>4. Len(p) > 1 => Len(p) # 1
  <2>1. \A n \in Nat : n > 1 => n # 1
    OBVIOUS
  <2> QED BY <1>2, <2>1, Zenon
<1>5. Len(p) # 1 =>
              /\ Metadata!Parent(p) \in DOMAIN doc /\ doc[Metadata!Parent(p)] = {"map"}
              /\ p[Len(p) - 1] \in Metadata!Containers => doc[p] = {"map"}
              /\ p[Len(p) - 1] \notin Metadata!Containers /\ Metadata!Last(p) \in Metadata!ignoredMetadataKey
                   => doc[p] # {"map"}
              /\ p[1] = "parameters" /\ Metadata!Last(p) = "enum" => doc[p] # {"map"}
  BY DEF Metadata!IsDocument, Metadata!IsMap
<1> QED BY <1>1, <1>2, <1>3, <1>4, <1>5

LEMMA DocumentTree ==
  ASSUME NEW doc, Metadata!IsDocument(doc)
  PROVE  Tree(doc)
<1> SUFFICES ASSUME NEW p \in DOMAIN doc
             PROVE  /\ p \in Seq(STRING) /\ p # <<>> /\ doc[p] # {}
                    /\ Len(p) > 1 => Metadata!Parent(p) \in DOMAIN doc /\ doc[Metadata!Parent(p)] = {"map"}
  BY DEF Tree
<1> QED BY DocumentIs

LEMMA ComparedIs ==
  ASSUME NEW doc, Metadata!IsDocument(doc), NEW p \in DOMAIN doc
  PROVE  (p[1] \in Metadata!Sections /\ \A i \in 2..Len(p) : ~Metadata!Ignored(p, i)) <=> ~Metadata!IsProse(doc, p)
<1> DEFINE n == Len(p)
<1>1. p \in Seq(STRING) /\ n \in Nat /\ n >= 1 /\ p # <<>>
  BY DocumentIs
<1>0. 1 \in 1..n /\ (n # 1 => n > 1 /\ n \in 2..n /\ 1 \in 1..(n - 1))
  <2> HIDE DEF n
  <2> QED BY <1>1
<1>2. ASSUME p[1] \in Metadata!Sections, \A i \in 2..n : ~Metadata!Ignored(p, i), Metadata!IsProse(doc, p)
      PROVE  FALSE
  <2>1. p[n] \in Metadata!ignoredMetadataKey /\ doc[p] # {"map"}
    BY <1>2 DEF Metadata!IsProse, Metadata!Last, Metadata!IsMap
  <2>2. n # 1
    BY <1>2, <2>1 DEF Metadata!Sections, Metadata!ignoredMetadataKey
  <2>3. n > 1 /\ n \in 2..n
    BY <1>0, <2>2
  <2>4. p[n - 1] \in Metadata!Containers
    BY <1>2, <2>1, <2>3 DEF Metadata!Ignored
  <2> QED BY <2>1, <2>3, <2>4, DocumentIs
<1>3. ASSUME ~Metadata!IsProse(doc, p) PROVE p[1] \in Metadata!Sections
  <2> DEFINE x == Pre(p, 1)
  <2>1. 1 \in 1..n
    BY <1>1
  <2>2. Len(x) = 1 /\ x[1] = p[1]
    <3>1. 1 \in 1..1
      OBVIOUS
    <3>2. \A k \in 1..n : Len(Pre(p, k)) = k /\ \A i \in 1..k : Pre(p, k)[i] = p[i]
      BY <1>1, PreIs
    <3> QED BY <2>1, <3>1, <3>2
  <2>3. x \in DOMAIN doc /\ ~Metadata!IsProse(doc, x)
    <3>1. CASE n = 1
      <4>1. x = p
        BY <1>1, <2>1, <3>1, PreIs
      <4> QED BY <1>3, <4>1
    <3>2. CASE n # 1
      <4>1. 1 \in 1..(n - 1)
        BY <1>0, <3>2
      <4>2. x \in DOMAIN doc /\ doc[x] = {"map"}
        BY <4>1, DocumentTree, Ancestors
      <4> QED BY <4>2 DEF Metadata!IsProse, Metadata!IsMap
    <3> QED BY <3>1, <3>2
  <2> HIDE DEF x
  <2> QED BY <2>2, <2>3, DocumentIs
<1>4. ASSUME ~Metadata!IsProse(doc, p), NEW i \in 2..n, Metadata!Ignored(p, i) PROVE FALSE
  <2> DEFINE x == Pre(p, i)
  <2>1. i \in 1..n /\ i - 1 \in 1..i /\ i \in 1..i /\ i > 1
    BY <1>1
  <2>2. Len(x) = i /\ x[i] = p[i] /\ x[i - 1] = p[i - 1]
    <3>1. \A k \in 1..n : Len(Pre(p, k)) = k /\ \A m \in 1..k : Pre(p, k)[m] = p[m]
      BY <1>1, PreIs
    <3>2. Len(x) = i /\ \A m \in 1..i : x[m] = p[m]
      BY <2>1, <3>1
    <3> HIDE DEF x
    <3> QED BY <2>1, <3>2
  <2>3. p[i] \in Metadata!ignoredMetadataKey /\ p[i - 1] \notin Metadata!Containers
    BY <1>4 DEF Metadata!Ignored
  <2>4. ASSUME x \in DOMAIN doc PROVE doc[x] # {"map"}
    <3> HIDE DEF x
    <3>1. Metadata!Last(x) = p[i] /\ Len(x) > 1 /\ x[Len(x) - 1] \notin Metadata!Containers
      BY <2>1, <2>2, <2>3 DEF Metadata!Last
    <3> QED BY <2>3, <2>4, <3>1, DocumentIs
  <2>5. CASE i = n
    <3>1. x = p
      BY <1>1, <2>1, <2>5, PreIs
    <3>2. Metadata!Last(p) \in Metadata!ignoredMetadataKey
      BY <2>3, <2>5 DEF Metadata!Last
    <3> QED BY <1>4, <2>4, <3>1, <3>2 DEF Metadata!IsProse, Metadata!IsMap
  <2>6. CASE i # n
    <3>1. i \in 1..(n - 1)
      BY <1>1, <2>6
    <3>2. x \in DOMAIN doc /\ doc[x] = {"map"}
      BY <3>1, DocumentTree, Ancestors
    <3> QED BY <2>4, <3>2
  <2> QED BY <2>5, <2>6
<1> QED BY <1>2, <1>3, <1>4

\* semanticOperation is the document, prose aside.
LEMMA SemanticIs ==
  ASSUME NEW doc, Metadata!IsDocument(doc)
  PROVE  /\ Metadata!semanticOperation(doc) = Metadata!ProseAside(doc)
         /\ Tree(Metadata!semanticOperation(doc))
         /\ \A p : p \in DOMAIN Metadata!semanticOperation(doc) <=> p \in DOMAIN doc /\ ~Metadata!IsProse(doc, p)
         /\ \A p \in DOMAIN Metadata!semanticOperation(doc) :
              Metadata!semanticOperation(doc)[p] = doc[p] /\ p[1] \in Metadata!Sections
<1> DEFINE T == {p \in DOMAIN doc : ~Metadata!IsProse(doc, p)}
           s == Metadata!semanticOperation(doc)
<1>1. {p \in DOMAIN doc : p[1] \in Metadata!Sections /\ \A i \in 2..Len(p) : ~Metadata!Ignored(p, i)} = T
  BY ComparedIs
<1>2. s = [p \in T |-> doc[p]]
  BY <1>1 DEF Metadata!semanticOperation
<1>3. s = Metadata!ProseAside(doc)
  BY <1>2 DEF Metadata!ProseAside
<1>4. DOMAIN s = T /\ \A p \in T : s[p] = doc[p]
  BY <1>2
<1>5. \A p \in T : p[1] \in Metadata!Sections
  BY ComparedIs
<1>6. Tree(s)
  <2> SUFFICES ASSUME NEW p \in T
               PROVE  /\ p \in Seq(STRING) /\ p # <<>> /\ s[p] # {}
                      /\ Len(p) > 1 => Metadata!Parent(p) \in T /\ s[Metadata!Parent(p)] = {"map"}
    BY <1>4 DEF Tree
  <2>1. p \in Seq(STRING) /\ p # <<>> /\ s[p] # {}
    BY <1>4, DocumentIs
  <2>2. ASSUME Len(p) > 1 PROVE Metadata!Parent(p) \in T /\ s[Metadata!Parent(p)] = {"map"}
    <3>1. Metadata!Parent(p) \in DOMAIN doc /\ doc[Metadata!Parent(p)] = {"map"}
      BY <2>2, DocumentIs
    <3>2. Metadata!Parent(p) \in T
      BY <3>1 DEF Metadata!IsProse, Metadata!IsMap
    <3> QED BY <1>4, <3>1, <3>2
  <2> QED BY <2>1, <2>2
<1> HIDE DEF s
<1> QED BY <1>3, <1>4, <1>5, <1>6 DEF s

-----------------------------------------------------------------------------
(* Prose alone is no difference.                                           *)

LEMMA DiffersSomewhere ==
  ASSUME NEW b, Tree(b), b = [p \in DOMAIN b |-> b[p]], NEW a, Tree(a), a = [p \in DOMAIN a |-> a[p]]
  PROVE  Metadata!diffMetadataMaps(b, a) = {} <=> b = a
<1>1. ASSUME b = a PROVE Metadata!diffMetadataMaps(b, a) = {}
  BY <1>1 DEF Metadata!diffMetadataMaps
<1>2. ASSUME b # a PROVE Metadata!diffMetadataMaps(b, a) # {}
  <2>1. PICK p \in DOMAIN b \cup DOMAIN a : ~(p \in DOMAIN b /\ p \in DOMAIN a /\ b[p] = a[p])
    <3> SUFFICES ASSUME \A p \in DOMAIN b \cup DOMAIN a : p \in DOMAIN b /\ p \in DOMAIN a /\ b[p] = a[p]
                 PROVE  b = a
      BY <1>2
    <3>1. DOMAIN b = DOMAIN a
      OBVIOUS
    <3>2. \A p \in DOMAIN b : b[p] = a[p]
      OBVIOUS
    <3> QED BY <3>1, <3>2
  <2>2. \A q \in DOMAIN b : b[q] # {}
    BY DEF Tree
  <2>3. \A q \in DOMAIN a : a[q] # {}
    BY DEF Tree
  <2>4. Metadata!At(b, p) # Metadata!At(a, p)
    BY <2>1, <2>2, <2>3 DEF Metadata!At, Metadata!Absent
  <2> QED BY <2>4, FirstDifference
<1> QED BY <1>1, <1>2

LEMMA ChangesIs ==
  ASSUME NEW base, NEW candidate, base # candidate, candidate # Metadata!NoDocument
  PROVE  LET b == Metadata!semanticOperation(base)
             a == Metadata!semanticOperation(candidate)
             changes == Metadata!Changes(base, candidate) IN
         /\ DOMAIN changes = Metadata!diffMetadataMaps(b, a)
         /\ base # Metadata!NoDocument =>
              \A p \in DOMAIN changes : changes[p] = Metadata!metadataCompatibility(b, a, p)
BY DEF Metadata!Changes

LEMMA GoneIsBreaking ==
  ASSUME NEW base, base # Metadata!NoDocument
  PROVE  /\ <<"api">> \in DOMAIN Metadata!Changes(base, Metadata!NoDocument)
         /\ Metadata!Changes(base, Metadata!NoDocument)[<<"api">>] = "breaking"
BY DEF Metadata!Changes

LEMMA ProseIsIgnored ==
  ASSUME NEW base, Metadata!IsDocument(base), NEW candidate, Metadata!IsDocument(candidate)
  PROVE  Metadata!OnlyProseIgnored(base, candidate, Metadata!Changes(base, candidate))
<1> DEFINE b == Metadata!semanticOperation(base)
           a == Metadata!semanticOperation(candidate)
<1>1. CASE base = candidate
  <2>1. Metadata!Changes(base, candidate) = Metadata!NoDocument
    BY <1>1 DEF Metadata!Changes
  <2>2. DOMAIN Metadata!NoDocument = {}
    BY DEF Metadata!NoDocument
  <2> QED BY <1>1, <2>1, <2>2 DEF Metadata!OnlyProseIgnored
<1>2. CASE base # candidate /\ candidate = Metadata!NoDocument
  <2>1. DOMAIN Metadata!Changes(base, candidate) # {}
    BY <1>2, GoneIsBreaking
  <2>2. DOMAIN candidate = {}
    BY <1>2 DEF Metadata!NoDocument
  <2>3. PICK p \in DOMAIN base : ~Metadata!IsProse(base, p)
    BY <1>2 DEF Metadata!IsDocument
  <2>4. p \in DOMAIN Metadata!ProseAside(base)
    BY <2>3 DEF Metadata!ProseAside
  <2>5. p \notin DOMAIN Metadata!ProseAside(candidate)
    BY <2>2 DEF Metadata!ProseAside
  <2> QED BY <2>1, <2>4, <2>5 DEF Metadata!OnlyProseIgnored
<1>3. CASE base # candidate /\ candidate # Metadata!NoDocument
  <2>1. DOMAIN Metadata!Changes(base, candidate) = Metadata!diffMetadataMaps(b, a)
    BY <1>3, ChangesIs
  <2>2. b = Metadata!ProseAside(base) /\ a = Metadata!ProseAside(candidate) /\ Tree(b) /\ Tree(a)
    BY SemanticIs
  <2>3. b = [p \in DOMAIN b |-> b[p]] /\ a = [p \in DOMAIN a |-> a[p]]
    BY DEF Metadata!semanticOperation
  <2> HIDE DEF b, a
  <2>4. Metadata!diffMetadataMaps(b, a) = {} <=> b = a
    BY <2>2, <2>3, DiffersSomewhere
  <2> QED BY <2>1, <2>2, <2>4 DEF Metadata!OnlyProseIgnored
<1> QED BY <1>1, <1>2, <1>3

-----------------------------------------------------------------------------
(* What compatible differences are.                                        *)

LEMMA AddedIs ==
  ASSUME NEW a, NEW x, Metadata!Added(a, x) = "compatible"
  PROVE  Metadata!At(a, x) = {"map"} /\ Metadata!At(a, x \o <<"required">>) # {"true"} /\ Len(x) = 2
<1>1. CASE Metadata!At(a, x) # {"map"}
  BY <1>1 DEF Metadata!Added, Metadata!IsMap
<1>2. CASE Metadata!At(a, x) = {"map"} /\ Metadata!At(a, x \o <<"required">>) = {"true"}
  BY <1>2 DEF Metadata!Added, Metadata!IsMap, Metadata!True
<1>3. CASE Metadata!At(a, x) = {"map"} /\ Metadata!At(a, x \o <<"required">>) # {"true"}
  <2>1. Metadata!Added(a, x) = IF Len(x) = 2 THEN "compatible" ELSE "unknown"
    BY <1>3 DEF Metadata!Added, Metadata!IsMap, Metadata!True
  <2> QED BY <1>3, <2>1
<1> QED BY <1>1, <1>2, <1>3

LEMMA OfParameterIs ==
  ASSUME NEW b, NEW a, NEW x, Metadata!OfParameter(b, a, x) = "compatible"
  PROVE  LET old == Metadata!At(b, x) next == Metadata!At(a, x) IN
         \/ Metadata!Last(x) = "required" /\ {old, next} \subseteq {{}, {"true"}, {"false"}} /\ next # {"true"}
         \/ /\ Metadata!Last(x) = "enum" /\ old # {}
            /\ next = {} \/ (old # {"map"} /\ next # {"map"} /\ old \subseteq next)
         \/ /\ Metadata!Last(x) \notin {"location", "required", "enum", "type"} /\ old = {} /\ next = {"map"}
            /\ Metadata!At(a, x \o <<"required">>) # {"true"} /\ Len(x) = 2
<1> DEFINE old == Metadata!At(b, x)
           next == Metadata!At(a, x)
<1>1. Metadata!Last(x) # "location"
  BY DEF Metadata!OfParameter
<1>2. CASE Metadata!Last(x) = "required"
  <2>1. Metadata!Required(old, next) = "compatible"
    BY <1>2 DEF Metadata!OfParameter
  <2> HIDE DEF old, next
  <2>2. {old, next} \subseteq {{}, {"true"}, {"false"}} /\ next # {"true"}
    BY <2>1 DEF Metadata!Required, Metadata!Absent, Metadata!True, Metadata!False
  <2> QED BY <1>2, <2>2 DEF old, next
<1>3. CASE Metadata!Last(x) = "enum"
  <2>1. Metadata!Enum(old, next) = "compatible"
    BY <1>3 DEF Metadata!OfParameter
  <2> HIDE DEF old, next
  <2>2. old # {} /\ (next = {} \/ (old # {"map"} /\ next # {"map"} /\ old \subseteq next))
    BY <2>1 DEF Metadata!Enum, Metadata!Absent, Metadata!IsMap
  <2> QED BY <1>3, <2>2 DEF old, next
<1>4. CASE Metadata!Last(x) = "type"
  BY <1>4 DEF Metadata!OfParameter
<1>5. CASE Metadata!Last(x) \notin {"location", "required", "enum", "type"}
  <2>1. (IF next = Metadata!Absent THEN "breaking" ELSE IF old = Metadata!Absent THEN Metadata!Added(a, x) ELSE "unknown")
          = "compatible"
    BY <1>5 DEF Metadata!OfParameter
  <2>2. old = {} /\ Metadata!Added(a, x) = "compatible"
    <3> HIDE DEF old, next
    <3> QED BY <2>1 DEF Metadata!Absent
  <2> QED BY <1>5, <2>2, AddedIs
<1> QED BY <1>1, <1>2, <1>3, <1>4, <1>5

LEMMA OfResponseIs ==
  ASSUME NEW b, NEW a, NEW x, Metadata!OfResponse(b, a, x) = "compatible"
  PROVE  Metadata!At(b, x) = {}
BY DEF Metadata!OfResponse, Metadata!Absent

LEMMA CompatibleIs ==
  ASSUME NEW b, NEW a, NEW x, Metadata!metadataCompatibility(b, a, x) = "compatible"
  PROVE  /\ x[1] = "parameters" => Metadata!OfParameter(b, a, x) = "compatible"
         /\ x[1] = "responses" => Metadata!At(b, x) = {}
<1>1. ASSUME x[1] = "parameters" PROVE Metadata!OfParameter(b, a, x) = "compatible"
  <2>1. CASE Len(x) > 1
    BY <1>1, <2>1 DEF Metadata!metadataCompatibility
  <2>2. CASE ~(Len(x) > 1)
    BY <1>1, <2>2 DEF Metadata!metadataCompatibility
  <2> QED BY <2>1, <2>2
<1>2. ASSUME x[1] = "responses" PROVE Metadata!At(b, x) = {}
  <2>1. CASE Len(x) > 1
    <3>1. Metadata!OfResponse(b, a, x) = "compatible"
      BY <1>2, <2>1 DEF Metadata!metadataCompatibility
    <3> QED BY <3>1, OfResponseIs
  <2>2. CASE ~(Len(x) > 1)
    BY <1>2, <2>2 DEF Metadata!metadataCompatibility
  <2> QED BY <2>1, <2>2
<1> QED BY <1>1, <1>2

-----------------------------------------------------------------------------
(* Compatible changes keep callers.                                        *)

\* Every difference of what is compared is compatible.
AllCompatible(base, candidate) ==
  \A x \in Metadata!diffMetadataMaps(Metadata!semanticOperation(base), Metadata!semanticOperation(candidate)) :
    Metadata!metadataCompatibility(Metadata!semanticOperation(base), Metadata!semanticOperation(candidate), x)
      = "compatible"

\* Up to a path of either revision, the first difference is a compatible one.
LEMMA FirstIsCompatible ==
  ASSUME NEW base, Metadata!IsDocument(base), NEW candidate, Metadata!IsDocument(candidate),
         AllCompatible(base, candidate),
         NEW p \in DOMAIN Metadata!semanticOperation(base) \cup DOMAIN Metadata!semanticOperation(candidate),
         Metadata!At(Metadata!semanticOperation(base), p) # Metadata!At(Metadata!semanticOperation(candidate), p)
  PROVE  \E k \in 1..Len(p) :
           /\ Pre(p, k) \in Metadata!diffMetadataMaps(Metadata!semanticOperation(base),
                                                      Metadata!semanticOperation(candidate))
           /\ Metadata!metadataCompatibility(Metadata!semanticOperation(base),
                                             Metadata!semanticOperation(candidate), Pre(p, k)) = "compatible"
           /\ Pre(p, k)[1] = p[1] /\ Len(Pre(p, k)) = k
<1> DEFINE b == Metadata!semanticOperation(base)
           a == Metadata!semanticOperation(candidate)
<1>1. Tree(b) /\ Tree(a)
  BY SemanticIs
<1>2. \A x \in Metadata!diffMetadataMaps(b, a) : Metadata!metadataCompatibility(b, a, x) = "compatible"
  BY DEF AllCompatible
<1> HIDE DEF b, a
<1>3. PICK k \in 1..Len(p) : Pre(p, k) \in Metadata!diffMetadataMaps(b, a)
  <2>1. p \in DOMAIN b \cup DOMAIN a /\ Metadata!At(b, p) # Metadata!At(a, p)
    BY DEF b, a
  <2> QED BY <1>1, <2>1, FirstDifference
<1>4. p \in Seq(STRING)
  <2>1. p \in DOMAIN b \cup DOMAIN a
    BY DEF b, a
  <2> QED BY <1>1, <2>1 DEF Tree
<1>5. Len(Pre(p, k)) = k /\ \A i \in 1..k : Pre(p, k)[i] = p[i]
  BY <1>3, <1>4, PreIs
<1>6. 1 \in 1..k
  <2>1. Len(p) \in Nat
    BY <1>4
  <2> QED BY <1>3, <2>1
<1> QED BY <1>2, <1>3, <1>5, <1>6 DEF b, a

\* What a document's path goes through is compared, and is an object.
LEMMA ThroughObjects ==
  ASSUME NEW doc, Tree(doc), NEW p \in DOMAIN doc, doc[p] = {"map"}, NEW k \in 1..Len(p)
  PROVE  Pre(p, k) \in DOMAIN doc /\ Metadata!At(doc, Pre(p, k)) = {"map"}
<1> DEFINE n == Len(p)
<1>1. p \in Seq(STRING) /\ n \in Nat
  BY DEF Tree
<1>2. CASE k = n
  <2>1. Pre(p, k) = p
    BY <1>1, <1>2, PreIs
  <2> QED BY <2>1 DEF Metadata!At
<1>3. CASE k # n
  <2>1. k \in 1..(n - 1)
    <3> HIDE DEF n
    <3>1. k \in 1..n
      BY DEF n
    <3> QED BY <1>1, <1>3, <3>1
  <2>2. Pre(p, k) \in DOMAIN doc /\ doc[Pre(p, k)] = {"map"}
    BY <2>1, Ancestors
  <2> QED BY <2>2 DEF Metadata!At
<1> QED BY <1>2, <1>3

\* A parameter is an object, and so are the names below it those of no prose.
LEMMA ParameterIs ==
  ASSUME NEW doc, Metadata!IsDocument(doc), NEW p
  PROVE  /\ p \in Metadata!Parameters(doc) =>
              p \in DOMAIN Metadata!semanticOperation(doc) /\ Metadata!semanticOperation(doc)[p] = {"map"}
         /\ p \in DOMAIN Metadata!semanticOperation(doc) /\ Metadata!IsParameter(p) => p \in Metadata!Parameters(doc)
<1>1. ASSUME p \in Metadata!Parameters(doc)
      PROVE  p \in DOMAIN Metadata!semanticOperation(doc) /\ Metadata!semanticOperation(doc)[p] = {"map"}
  <2>1. p \in DOMAIN doc /\ Len(p) > 1 /\ p[Len(p) - 1] \in Metadata!Containers
    BY <1>1 DEF Metadata!Parameters, Metadata!IsParameter, Metadata!Containers
  <2>2. doc[p] = {"map"}
    BY <2>1, DocumentIs
  <2>3. ~Metadata!IsProse(doc, p)
    BY <2>2 DEF Metadata!IsProse, Metadata!IsMap
  <2> QED BY <2>1, <2>2, <2>3, SemanticIs
<1>2. ASSUME p \in DOMAIN Metadata!semanticOperation(doc), Metadata!IsParameter(p) PROVE p \in Metadata!Parameters(doc)
  BY <1>2, SemanticIs DEF Metadata!Parameters
<1> QED BY <1>1, <1>2

\* Below a parameter, what is not called like prose is compared.
LEMMA BelowIs ==
  ASSUME NEW doc, Metadata!IsDocument(doc), NEW x, Metadata!Last(x) \notin Metadata!ignoredMetadataKey
  PROVE  Metadata!At(Metadata!semanticOperation(doc), x) = Metadata!At(doc, x)
<1>1. ~Metadata!IsProse(doc, x)
  BY DEF Metadata!IsProse
<1>2. x \in DOMAIN Metadata!semanticOperation(doc) <=> x \in DOMAIN doc
  BY <1>1, SemanticIs
<1>3. x \in DOMAIN doc => Metadata!semanticOperation(doc)[x] = doc[x]
  BY <1>2, SemanticIs
<1> QED BY <1>2, <1>3 DEF Metadata!At

\* A key called enum holds the values of a parameter.
LEMMA EnumIsNoObject ==
  ASSUME NEW doc, Metadata!IsDocument(doc), NEW x, x[1] = "parameters", Metadata!Last(x) = "enum", Len(x) > 1
  PROVE  Metadata!At(Metadata!semanticOperation(doc), x) # {"map"}
<1>1. x \in DOMAIN doc => doc[x] # {"map"}
  BY DocumentIs
<1>2. Metadata!At(doc, x) # {"map"}
  BY <1>1 DEF Metadata!At, Metadata!Absent
<1>3. Metadata!Last(x) \notin Metadata!ignoredMetadataKey
  BY DEF Metadata!ignoredMetadataKey
<1> QED BY <1>2, <1>3, BelowIs

\* A key below a parameter of both, if the revisions differ there, is judged.
LEMMA BelowIsJudged ==
  ASSUME NEW base, Metadata!IsDocument(base), NEW candidate, Metadata!IsDocument(candidate),
         AllCompatible(base, candidate), NEW p \in Metadata!Parameters(base), p \in Metadata!Parameters(candidate),
         NEW e \in {"enum", "type", "required"},
         Metadata!At(base, p \o <<e>>) # Metadata!At(candidate, p \o <<e>>)
  PROVE  /\ Metadata!At(Metadata!semanticOperation(base), p \o <<e>>) = Metadata!At(base, p \o <<e>>)
         /\ Metadata!At(Metadata!semanticOperation(candidate), p \o <<e>>) = Metadata!At(candidate, p \o <<e>>)
         /\ Metadata!Last(p \o <<e>>) = e
         /\ Metadata!OfParameter(Metadata!semanticOperation(base), Metadata!semanticOperation(candidate), p \o <<e>>)
              = "compatible"
<1> DEFINE b == Metadata!semanticOperation(base)
           a == Metadata!semanticOperation(candidate)
           x == p \o <<e>>
<1>1. p \in DOMAIN b /\ b[p] = {"map"} /\ p \in DOMAIN a /\ a[p] = {"map"}
  BY ParameterIs
<1>2. p \in Seq(STRING) /\ p # <<>> /\ p[1] = "parameters"
  <2>1. p \in DOMAIN base /\ p[1] = "parameters"
    BY DEF Metadata!Parameters, Metadata!IsParameter
  <2> QED BY <2>1, DocumentIs
<1>3. Metadata!Last(x) = e /\ Metadata!Parent(x) = p /\ x[1] = "parameters"
  BY <1>2, PathIs
<1> HIDE DEF x
<1>4. Metadata!At(b, x) = Metadata!At(base, x) /\ Metadata!At(a, x) = Metadata!At(candidate, x)
  <2>1. Metadata!Last(x) \notin Metadata!ignoredMetadataKey
    BY <1>3 DEF Metadata!ignoredMetadataKey
  <2> QED BY <2>1, BelowIs
<1> HIDE DEF b, a
<1>5. Metadata!At(b, x) # Metadata!At(a, x)
  BY <1>4 DEF x
<1>6. x \in DOMAIN b \cup DOMAIN a
  BY <1>5 DEF Metadata!At
<1>7. Metadata!BothMaps(b, a, Metadata!Parent(x))
  BY <1>1, <1>3 DEF Metadata!BothMaps, Metadata!At, Metadata!IsMap
<1>8. x \in Metadata!diffMetadataMaps(b, a)
  BY <1>5, <1>6, <1>7 DEF Metadata!diffMetadataMaps
<1>9. Metadata!metadataCompatibility(b, a, x) = "compatible"
  BY <1>8 DEF AllCompatible, b, a
<1>10. Metadata!OfParameter(b, a, x) = "compatible"
  BY <1>3, <1>9, CompatibleIs
<1> QED BY <1>3, <1>4, <1>10 DEF b, a, x

\* A parameter stays.
LEMMA ParameterStays ==
  ASSUME NEW base, Metadata!IsDocument(base), NEW candidate, Metadata!IsDocument(candidate),
         AllCompatible(base, candidate), NEW p \in Metadata!Parameters(base)
  PROVE  p \in Metadata!Parameters(candidate)
<1> DEFINE b == Metadata!semanticOperation(base)
           a == Metadata!semanticOperation(candidate)
<1>1. p \in DOMAIN b /\ b[p] = {"map"} /\ Metadata!IsParameter(p) /\ p[1] = "parameters"
  BY ParameterIs DEF Metadata!Parameters, Metadata!IsParameter
<1>2. Metadata!At(b, p) = {"map"}
  BY <1>1 DEF Metadata!At
<1>3. Metadata!At(a, p) = {"map"}
  <2> SUFFICES ASSUME Metadata!At(a, p) # {"map"} PROVE FALSE
    OBVIOUS
  <2>1. PICK k \in 1..Len(p) : /\ Pre(p, k) \in Metadata!diffMetadataMaps(b, a)
                               /\ Metadata!metadataCompatibility(b, a, Pre(p, k)) = "compatible"
                               /\ Pre(p, k)[1] = p[1] /\ Len(Pre(p, k)) = k
    BY <1>1, <1>2, FirstIsCompatible
  <2> DEFINE x == Pre(p, k)
  <2>2. Metadata!OfParameter(b, a, x) = "compatible" /\ x[1] = "parameters"
    BY <1>1, <2>1, CompatibleIs
  <2>3. Metadata!At(b, x) = {"map"}
    <3>1. Tree(b)
      BY SemanticIs
    <3> HIDE DEF b
    <3> QED BY <1>1, <3>1, ThroughObjects
  <2>4. Len(x) > 1
    <3>1. Len(x) # 1
      <4> SUFFICES ASSUME Len(x) = 1 PROVE FALSE
        OBVIOUS
      <4> HIDE DEF x, b, a
      <4>1. ~(Len(x) > 1)
        OBVIOUS
      <4> QED BY <2>1, <2>2, <4>1 DEF Metadata!metadataCompatibility, x
    <3>2. Len(x) = k /\ k \in Nat /\ k >= 1
      <4>1. Len(p) \in Nat
        BY <1>1, DocumentIs, SemanticIs
      <4> QED BY <2>1, <4>1
    <3> HIDE DEF x
    <3> QED BY <3>1, <3>2
  <2>5. Metadata!Last(x) # "enum"
    <3> HIDE DEF x
    <3> QED BY <2>2, <2>3, <2>4, EnumIsNoObject
  <2> HIDE DEF x, b, a
  <2>6. \/ Metadata!Last(x) = "required" /\ Metadata!At(b, x) \in {{}, {"true"}, {"false"}}
        \/ Metadata!At(b, x) = {}
    BY <2>2, <2>5, OfParameterIs
  <2>7. {"map"} # {} /\ {"map"} # {"true"} /\ {"map"} # {"false"}
    OBVIOUS
  <2> QED BY <2>3, <2>6, <2>7
<1>4. p \in DOMAIN a
  BY <1>3 DEF Metadata!At, Metadata!Absent
<1> QED BY <1>1, <1>4, ParameterIs

\* A parameter that is new is not required of those who gave what was known.
LEMMA NewIsOptional ==
  ASSUME NEW base, Metadata!IsDocument(base), NEW candidate, Metadata!IsDocument(candidate),
         AllCompatible(base, candidate), NEW p \in Metadata!Parameters(candidate), p \notin Metadata!Parameters(base),
         Metadata!At(candidate, p \o <<"required">>) = {"true"}
  PROVE  Len(p) # 2 /\ Metadata!Owner(p) \notin Metadata!Parameters(base)
<1> DEFINE b == Metadata!semanticOperation(base)
           a == Metadata!semanticOperation(candidate)
           n == Len(p)
<1>1. p \in DOMAIN a /\ a[p] = {"map"} /\ Metadata!IsParameter(p) /\ p[1] = "parameters" /\ n > 1
  BY ParameterIs DEF Metadata!Parameters, Metadata!IsParameter
<1>2. p \notin DOMAIN b
  BY <1>1, ParameterIs
<1>3. Metadata!At(b, p) # Metadata!At(a, p)
  BY <1>1, <1>2 DEF Metadata!At, Metadata!Absent
<1>4. Tree(b) /\ Tree(a)
  BY SemanticIs
<1>5. p \in Seq(STRING) /\ p # <<>> /\ n \in Nat
  BY <1>1, DocumentIs, SemanticIs
<1>6. PICK k \in 1..n : /\ Pre(p, k) \in Metadata!diffMetadataMaps(b, a)
                        /\ Metadata!metadataCompatibility(b, a, Pre(p, k)) = "compatible"
                        /\ Pre(p, k)[1] = p[1] /\ Len(Pre(p, k)) = k
  BY <1>1, <1>3, FirstIsCompatible
<1> DEFINE x == Pre(p, k)
<1>7. Metadata!OfParameter(b, a, x) = "compatible" /\ x[1] = "parameters"
  BY <1>1, <1>6, CompatibleIs
<1>8. Metadata!At(a, x) = {"map"}
  <2> HIDE DEF a
  <2> QED BY <1>1, <1>4, <1>6, ThroughObjects
<1>9. Metadata!At(b, x) = {} /\ k = 2 /\ Metadata!At(a, x \o <<"required">>) # {"true"}
  <2>1. Len(x) > 1 \/ Len(x) = 1
    <3>1. Len(x) = k /\ k \in Nat /\ k >= 1
      BY <1>5, <1>6
    <3> HIDE DEF x
    <3> QED BY <3>1
  <2>2. Metadata!Last(x) # "enum"
    <3>1. CASE Len(x) > 1
      <4> HIDE DEF x
      <4> QED BY <1>7, <1>8, <3>1, EnumIsNoObject
    <3>2. CASE Len(x) = 1
      <4> HIDE DEF x
      <4>1. Metadata!Last(x) = "parameters"
        BY <1>7, <3>2 DEF Metadata!Last
      <4> QED BY <4>1
    <3> QED BY <2>1, <3>1, <3>2
  <2> HIDE DEF b, a, x
  <2>3. {"map"} # {} /\ {"map"} # {"true"} /\ {"map"} # {"false"}
    OBVIOUS
  <2>4. Metadata!At(b, x) = {} /\ Metadata!At(a, x \o <<"required">>) # {"true"} /\ Len(x) = 2
    BY <1>7, <1>8, <2>2, <2>3, OfParameterIs
  <2> QED BY <1>6, <2>4 DEF x
<1>10. Metadata!At(a, p \o <<"required">>) = {"true"}
  <2>2. Metadata!Last(p \o <<"required">>) = "required"
    BY <1>5, PathIs
  <2>3. Metadata!Last(p \o <<"required">>) \notin Metadata!ignoredMetadataKey
    BY <2>2 DEF Metadata!ignoredMetadataKey
  <2> QED BY <2>3, BelowIs
<1>11. n # 2
  <2> SUFFICES ASSUME n = 2 PROVE FALSE
    OBVIOUS
  <2>1. x = p
    BY <1>5, <1>6, <1>9, PreIs
  <2> QED BY <1>9, <1>10, <2>1
<1>12. ASSUME Metadata!Owner(p) \in Metadata!Parameters(base) PROVE FALSE
  <2> DEFINE o == Metadata!Owner(p)
             m == n - 2
  <2>1. o \in DOMAIN b /\ b[o] = {"map"} /\ Len(o) > 1
    BY <1>12, ParameterIs DEF Metadata!Parameters, Metadata!IsParameter
  <2>2. m \in 0..n /\ m >= 1
    <3> HIDE DEF n
    <3> QED BY <1>1, <1>5, <1>11
  <2>3. o = [i \in 1..m |-> p[i]] /\ Len(o) = m
    <3>1. o = SubSeq(p, 1, m)
      BY DEF Metadata!Owner
    <3> HIDE DEF o, m
    <3> QED BY <1>5, <2>2, <3>1 DEF n
  <2>4. m >= 2 /\ 2 \in 1..m
    <3> HIDE DEF m, o
    <3> QED BY <2>1, <2>2, <2>3
  <2>5. Pre(o, 2) = [i \in 1..2 |-> o[i]]
    <3>1. o \in Seq(STRING)
      BY <2>1, <1>4 DEF Tree
    <3> HIDE DEF o, m
    <3> QED BY <2>3, <2>4, <3>1 DEF Pre
  <2>6. x = [i \in 1..2 |-> p[i]]
    <3>1. x = SubSeq(p, 1, 2)
      BY <1>9 DEF Pre
    <3>2. 2 \in 1..n
      <4> HIDE DEF n, x
      <4> QED BY <1>6, <1>9
    <3> HIDE DEF x
    <3> QED BY <1>5, <3>1, <3>2
  <2>7. Pre(o, 2) = x
    <3>1. \A i \in 1..2 : o[i] = p[i]
      <4> HIDE DEF o, m
      <4> QED BY <2>3, <2>4, <2>2
    <3> HIDE DEF o, x
    <3> QED BY <2>5, <2>6, <3>1
  <2>8. Metadata!At(b, Pre(o, 2)) = {"map"}
    <3>1. 2 \in 1..Len(o)
      <4> HIDE DEF o
      <4> QED BY <2>3, <2>4
    <3> HIDE DEF b, o
    <3> QED BY <1>4, <2>1, <3>1, ThroughObjects
  <2> QED BY <1>9, <2>7, <2>8
<1> QED BY <1>11, <1>12

\* What the old revision accepts, the new one does.
LEMMA AcceptedStays ==
  ASSUME NEW base, Metadata!IsDocument(base), NEW candidate, Metadata!IsDocument(candidate),
         AllCompatible(base, candidate), candidate # Metadata!NoDocument,
         NEW request, Metadata!Accepts(base, request)
  PROVE  Metadata!Accepts(candidate, request)
<1>1. ASSUME NEW p \in DOMAIN request
      PROVE  /\ p \in Metadata!Parameters(candidate)
             /\ Metadata!At(candidate, p \o <<"enum">>) # Metadata!Absent
                  => request[p].value \in Metadata!At(candidate, p \o <<"enum">>)
             /\ request[p].type \in Metadata!At(candidate, p \o <<"type">>)
  <2>1. /\ p \in Metadata!Parameters(base)
        /\ Metadata!At(base, p \o <<"enum">>) # {} => request[p].value \in Metadata!At(base, p \o <<"enum">>)
        /\ request[p].type \in Metadata!At(base, p \o <<"type">>)
    BY DEF Metadata!Accepts, Metadata!Absent
  <2>2. p \in Metadata!Parameters(candidate)
    BY <2>1, ParameterStays
  <2>3. ASSUME Metadata!At(candidate, p \o <<"enum">>) # {}
        PROVE  request[p].value \in Metadata!At(candidate, p \o <<"enum">>)
    <3> SUFFICES ASSUME Metadata!At(base, p \o <<"enum">>) # Metadata!At(candidate, p \o <<"enum">>)
                 PROVE  request[p].value \in Metadata!At(candidate, p \o <<"enum">>)
      BY <2>1, <2>3
    <3>1. /\ Metadata!At(base, p \o <<"enum">>) # {}
          /\ Metadata!At(base, p \o <<"enum">>) \subseteq Metadata!At(candidate, p \o <<"enum">>)
      BY <2>1, <2>2, <2>3, BelowIsJudged, OfParameterIs
    <3> QED BY <2>1, <3>1
  <2>4. Metadata!At(base, p \o <<"type">>) = Metadata!At(candidate, p \o <<"type">>)
    <3> SUFFICES ASSUME Metadata!At(base, p \o <<"type">>) # Metadata!At(candidate, p \o <<"type">>)
                 PROVE  FALSE
      OBVIOUS
    <3> QED BY <2>1, <2>2, BelowIsJudged, OfParameterIs
  <2> QED BY <2>1, <2>2, <2>3, <2>4 DEF Metadata!Absent
<1>2. ASSUME NEW p \in Metadata!Parameters(candidate),
             Metadata!At(candidate, p \o <<"required">>) = Metadata!True,
             Len(p) = 2 \/ Metadata!Given(request, Metadata!Owner(p))
      PROVE  Metadata!Given(request, p)
  <2>1. Metadata!At(candidate, p \o <<"required">>) = {"true"}
    BY <1>2 DEF Metadata!True
  <2>2. p \in Metadata!Parameters(base)
    <3> SUFFICES ASSUME p \notin Metadata!Parameters(base) PROVE FALSE
      OBVIOUS
    <3>1. Len(p) # 2 /\ Metadata!Owner(p) \notin Metadata!Parameters(base)
      BY <2>1, NewIsOptional
    <3>2. Metadata!Owner(p) \in DOMAIN request
      BY <1>2, <3>1 DEF Metadata!Given
    <3>3. Metadata!Owner(p) \in Metadata!Parameters(base)
      BY <3>2 DEF Metadata!Accepts
    <3> QED BY <3>1, <3>3
  <2>3. Metadata!At(base, p \o <<"required">>) = {"true"}
    <3> SUFFICES ASSUME Metadata!At(base, p \o <<"required">>) # {"true"} PROVE FALSE
      OBVIOUS
    <3> QED BY <2>1, <2>2, BelowIsJudged, OfParameterIs
  <2> QED BY <1>2, <2>2, <2>3 DEF Metadata!Accepts, Metadata!True
<1> QED BY <1>1, <1>2 DEF Metadata!Accepts

\* The response keeps its properties and their types.
LEMMA PromisedStays ==
  ASSUME NEW base, Metadata!IsDocument(base), NEW candidate, Metadata!IsDocument(candidate),
         AllCompatible(base, candidate)
  PROVE  Metadata!Promised(base) \subseteq Metadata!Promised(candidate)
<1> DEFINE b == Metadata!semanticOperation(base)
           a == Metadata!semanticOperation(candidate)
<1> SUFFICES ASSUME NEW p \in DOMAIN base, p[1] = "responses", Metadata!Last(p) = "type"
             PROVE  p \in DOMAIN candidate /\ candidate[p] = base[p]
  BY DEF Metadata!Promised
<1>1. Metadata!At(b, p) = base[p] /\ Metadata!At(a, p) = Metadata!At(candidate, p) /\ base[p] # {}
  <2>1. Metadata!Last(p) \notin Metadata!ignoredMetadataKey
    BY DEF Metadata!ignoredMetadataKey
  <2>2. Metadata!At(b, p) = Metadata!At(base, p) /\ Metadata!At(a, p) = Metadata!At(candidate, p)
    BY <2>1, BelowIs
  <2>3. base[p] # {}
    BY DocumentIs
  <2> QED BY <2>2, <2>3 DEF Metadata!At
<1>2. p \in DOMAIN b /\ Tree(b)
  BY <1>1, SemanticIs DEF Metadata!At, Metadata!Absent
<1>3. ASSUME Metadata!At(b, p) # Metadata!At(a, p) PROVE FALSE
  <2>1. PICK k \in 1..Len(p) : /\ Pre(p, k) \in Metadata!diffMetadataMaps(b, a)
                               /\ Metadata!metadataCompatibility(b, a, Pre(p, k)) = "compatible"
                               /\ Pre(p, k)[1] = p[1] /\ Len(Pre(p, k)) = k
    BY <1>2, <1>3, FirstIsCompatible
  <2>2. Metadata!At(b, Pre(p, k)) = {}
    BY <2>1, CompatibleIs
  <2>3. Pre(p, k) \in DOMAIN b
    <3> DEFINE n == Len(p)
    <3>1. p \in Seq(STRING) /\ n \in Nat
      BY <1>2 DEF Tree
    <3> HIDE DEF b
    <3>2. CASE k = n
      BY <1>2, <2>1, <3>1, <3>2, PreIs
    <3>3. CASE k # n
      <4>1. k \in 1..(n - 1)
        <5>1. k \in 1..n
          BY <2>1
        <5> HIDE DEF n
        <5> QED BY <3>1, <3>3, <5>1
      <4> QED BY <1>2, <4>1, Ancestors
    <3> QED BY <3>2, <3>3
  <2> HIDE DEF b
  <2> QED BY <1>2, <2>2, <2>3 DEF Metadata!At, Tree
<1>4. Metadata!At(candidate, p) = base[p]
  BY <1>1, <1>3
<1> QED BY <1>1, <1>4 DEF Metadata!At, Metadata!Absent

LEMMA CallersAreKept ==
  ASSUME NEW base, Metadata!IsDocument(base), NEW candidate, Metadata!IsDocument(candidate), NEW requests
  PROVE  Metadata!CompatibleKeepsCallers(base, candidate, Metadata!Changes(base, candidate), requests)
<1> DEFINE changes == Metadata!Changes(base, candidate)
<1> SUFFICES ASSUME Metadata!Compatible(changes)
             PROVE  /\ \A request \in requests : Metadata!Accepts(base, request) => Metadata!Accepts(candidate, request)
                    /\ Metadata!Promised(base) \subseteq Metadata!Promised(candidate)
  BY DEF Metadata!CompatibleKeepsCallers
<1>1. CASE base = candidate
  BY <1>1
<1>2. CASE base # candidate /\ base = Metadata!NoDocument
  <2>1. \A request : ~Metadata!Accepts(base, request)
    BY <1>2 DEF Metadata!Accepts
  <2>2. DOMAIN base = {}
    BY <1>2 DEF Metadata!NoDocument
  <2> QED BY <2>1, <2>2 DEF Metadata!Promised
<1>3. CASE base # candidate /\ base # Metadata!NoDocument /\ candidate = Metadata!NoDocument
  <2>1. <<"api">> \in DOMAIN changes /\ changes[<<"api">>] = "breaking"
    BY <1>3, GoneIsBreaking
  <2> HIDE DEF changes
  <2> QED BY <2>1 DEF Metadata!Compatible
<1>4. CASE base # candidate /\ base # Metadata!NoDocument /\ candidate # Metadata!NoDocument
  <2>1. AllCompatible(base, candidate)
    BY <1>4, ChangesIs DEF Metadata!Compatible, AllCompatible
  <2> QED BY <1>4, <2>1, AcceptedStays, PromisedStays
<1> QED BY <1>1, <1>2, <1>3, <1>4

-----------------------------------------------------------------------------
\* What is answered about metadata is asked of documents.
Judged ==
  about = "metadata" =>
    /\ Metadata!IsDocument(question.base) /\ Metadata!IsDocument(question.candidate)
    /\ answer = <<>> \/ answer = <<Metadata!Changes(question.base, question.candidate)>>

\* Changes of metadata that are all judged compatible keep every caller
\* working, for all documents and requests; prose alone is no change, and
\* nothing else is left out (CompareMetadataResources, metadataCompatibility,
\* normalizeMetadata).
THEOREM ChangesKeepCallers == ChoiceSpec => []ChangesAreJudged
<1>1. ChoiceInit => Judged
  <2> SUFFICES ASSUME ChoiceInit, about = "metadata" PROVE Judged
    BY DEF Judged
  <2>1. PICK questions \in MetadataQuestions : question \in questions
    BY DEF ChoiceInit, Asks
  <2>2. Metadata!IsDocument(question.base) /\ Metadata!IsDocument(question.candidate)
    BY <2>1, MetadataAssumption
  <2> QED BY <2>2 DEF ChoiceInit, Judged
<1>2. Judged /\ [ChoiceNext]_choiceVars => Judged'
  <2> SUFFICES ASSUME Judged, [ChoiceNext]_choiceVars, about' = "metadata" PROVE Judged'
    BY DEF Judged
  <2>1. CASE CompareMetadata
    BY <2>1 DEF CompareMetadata, Reply, Judged
  <2>2. CASE ResolveCredential \/ MatchItems \/ ShowResult
    BY <2>2 DEF ResolveCredential, MatchItems, ShowResult, Reply, Judged
  <2>3. CASE ReadPages \/ UNCHANGED choiceVars
    BY <2>3 DEF ReadPages, choiceVars, asking, Judged
  <2> QED BY <2>1, <2>2, <2>3 DEF ChoiceNext
<1>3. Judged => ChangesAreJudged
  <2> SUFFICES ASSUME Judged, about = "metadata", answer # <<>> PROVE ChangesAreJudged
    BY DEF ChangesAreJudged, Answered
  <2>1. answer[1] = Metadata!Changes(question.base, question.candidate)
    BY DEF Judged
  <2>2. Metadata!IsDocument(question.base) /\ Metadata!IsDocument(question.candidate)
    BY DEF Judged
  <2> QED BY <2>1, <2>2, CallersAreKept, ProseIsIgnored DEF ChangesAreJudged
<1> QED BY <1>1, <1>2, <1>3, PTL DEF ChoiceSpec
=============================================================================
