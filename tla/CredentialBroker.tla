-------------------------- MODULE CredentialBroker --------------------------
(***************************************************************************)
(* The loopback server that lends the credentials of one object-storage    *)
(* call to the ossutil process (pkg/aliyun/credential_broker.go, used by   *)
(* ossutil_caller.go).  It is seeded with the credential the call was      *)
(* planned with, serves the launcher's preflight from that seed alone, and *)
(* renews in the background once it is activated.                          *)
(*                                                                         *)
(* Requests are handler goroutines of the server; slots are the refresh    *)
(* goroutines, each with the channel it closes.  Every step below is one   *)
(* critical section of the mutex or one step outside it.                   *)
(***************************************************************************)
EXTENDS Integers, FiniteSets

CONSTANTS
  Connections, \* connections of the ossutil process
  Slots,       \* bound: refresh goroutines alive at once
  NoSlot,      \* no refresh is running (a nil channel)
  MaxVersion,  \* bound: credentials the source hands out; the last one lasts
  MaxOutages   \* bound: failures of the source and of the identity check

ASSUME BrokerAssumption ==
  NoSlot \notin Slots /\ MaxVersion \in Nat \ {0} /\ MaxOutages \in Nat

Versions == 1..MaxVersion   \* in the order the source issues them; 0 is none

VARIABLES
  issued,      \* newest version the source has handed out
  age,         \* fresh, stale (inside the refresh window), expired or endless
  alien,       \* versions that belong to another identity
  outages,
  current,     \* the snapshot the broker serves
  enabled,     \* refreshEnabled
  refresh,     \* the running refresh, as other goroutines see it
  refreshErr,  \* the last refresh failed
  serveErr,    \* the last answer was a failure with an error
  slot,        \* the refresh goroutines
  req,         \* the handlers
  phase,       \* of the call that owns the broker
  lastServed   \* history: newest version answered so far

source == <<issued, age, alien, outages>>
state == <<current, enabled, refresh, refreshErr, serveErr>>
brokerVars == <<source, state, slot, req, phase, lastServed>>

-----------------------------------------------------------------------------
Valid(v) == v # 0 /\ age[v] # "expired"  \* a snapshot and not snapshotExpired

Running == {"acquire", "validate", "publish"}  \* before the refresh is published

\* A goroutine that has ended can be forgotten once nobody waits on it.
Waits(r, k) == req[r].at = "wait" /\ req[r].on = k
Spare(k) == slot[k].at = "ended" /\ \A r \in Connections : ~Waits(r, k)

\* startRefreshLocked: at most one refresh at a time.
MutStartRefresh == \* mutant: a running refresh is not looked at
  IF ~enabled THEN UNCHANGED <<refresh, slot>>
  ELSE \E k \in Slots : /\ Spare(k)
                        /\ refresh' = k
                        /\ slot' = [slot EXCEPT ![k] = [at |-> "acquire", got |-> 0]]
StartRefresh ==
  IF ~enabled \/ refresh # NoSlot THEN UNCHANGED <<refresh, slot>>
  ELSE \E k \in Slots : /\ Spare(k)
                        /\ refresh' = k
                        /\ slot' = [slot EXCEPT ![k] = [at |-> "acquire", got |-> 0]]

-----------------------------------------------------------------------------
(***************************************************************************)
(* A request for the credential.                                           *)
(***************************************************************************)
Arrive(r) ==
  /\ req[r].at = "idle" /\ phase \in {"preflight", "active"}
  /\ req' = [req EXCEPT ![r] = [at |-> "lock", on |-> NoSlot, got |-> 0, floor |-> lastServed]]
  /\ UNCHANGED <<source, state, slot, phase, lastServed>>

\* First critical section: serve what is valid, renewing it in the background
\* when it has no end or is near it; otherwise wait for a refresh.
Snapshot(r) ==
  /\ req[r].at = "lock"
  /\ UNCHANGED <<source, current, enabled, refreshErr, serveErr, phase, lastServed>>
  /\ IF Valid(current) /\ age[current] = "fresh" THEN UNCHANGED <<refresh, slot>> ELSE StartRefresh
  /\ req' = [req EXCEPT ![r] =
       IF Valid(current) THEN [@ EXCEPT !.at = "answer", !.got = current]
       ELSE IF refresh' = NoSlot THEN [@ EXCEPT !.at = "answer"]
       ELSE [@ EXCEPT !.at = "wait", !.on = refresh']]

Wake(r) ==
  /\ req[r].at = "wait" /\ slot[req[r].on].at = "ended"
  /\ req' = [req EXCEPT ![r].at = "recheck"]
  /\ UNCHANGED <<source, state, slot, phase, lastServed>>

\* The client hangs up, the broker is closed, or the wait times out.
GiveUp(r) ==
  /\ req[r].at = "wait"
  /\ req' = [req EXCEPT ![r].at = "answer"]
  /\ UNCHANGED <<source, state, slot, phase, lastServed>>

\* Second critical section: whatever is current now is served.
Recheck(r) ==
  /\ req[r].at = "recheck"
  /\ req' = [req EXCEPT ![r].at = "answer", ![r].got = IF Valid(current) THEN current ELSE 0]
  /\ UNCHANGED <<source, state, slot, phase, lastServed>>

\* The handler looks at the expiry once more.
Answer(r) ==
  LET v == req[r].got IN
  /\ req[r].at = "answer"
  /\ req' = [req EXCEPT ![r].at = "idle"]
  /\ serveErr' = (v = 0)
  /\ lastServed' = IF Valid(v) /\ v > lastServed THEN v ELSE lastServed
  /\ UNCHANGED <<source, current, enabled, refresh, refreshErr, slot, phase>>

-----------------------------------------------------------------------------
(***************************************************************************)
(* The refresh goroutine.                                                  *)
(***************************************************************************)
\* The source answers with the credential it holds or with a new one, of the
\* same identity or, after an outside login, of another.
Acquire(k) ==
  /\ slot[k].at = "acquire"
  /\ UNCHANGED <<state, req, phase, lastServed>>
  /\ \/ /\ age[issued] \in {"fresh", "endless"}
        /\ slot' = [slot EXCEPT ![k] = [at |-> "validate", got |-> issued]]
        /\ UNCHANGED source
     \/ /\ issued < MaxVersion
        /\ issued' = issued + 1
        /\ age' \in {[age EXCEPT ![issued'] = a] :
                       a \in IF issued' = MaxVersion THEN {"endless"} ELSE {"fresh", "stale", "endless"}}
        /\ alien' \in {alien} \cup (IF issued' = MaxVersion THEN {} ELSE {alien \cup {issued'}})
        /\ slot' = [slot EXCEPT ![k] = [at |-> "validate", got |-> issued']]
        /\ UNCHANGED outages
     \/ /\ outages < MaxOutages /\ outages' = outages + 1
        /\ slot' = [slot EXCEPT ![k].at = "publish"]
        /\ UNCHANGED <<issued, age, alien>>

\* operationIdentityGuard.Validate: the identity of the first credential.
MutValidate(k) == \* mutant: the guard of the call is not consulted
  /\ slot[k].at = "validate"
  /\ slot' = [slot EXCEPT ![k].at = "publish"]
  /\ UNCHANGED <<source, state, req, phase, lastServed>>
Validate(k) ==
  /\ slot[k].at = "validate"
  /\ UNCHANGED <<issued, age, alien, state, req, phase, lastServed>>
  /\ \/ /\ slot' = [slot EXCEPT ![k] = [at |-> "publish", got |-> IF @.got \in alien THEN 0 ELSE @.got]]
        /\ UNCHANGED outages
     \/ /\ outages < MaxOutages /\ outages' = outages + 1
        /\ slot' = [slot EXCEPT ![k] = [at |-> "publish", got |-> 0]]

\* The result is published, and another refresh may start before this one's
\* waiters are told.
MutPublish(k) == \* mutant: a failed refresh stays the running one
  /\ slot[k].at = "publish"
  /\ refreshErr' = (slot[k].got = 0)
  /\ current' = IF Valid(slot[k].got) THEN slot[k].got ELSE current
  /\ refresh' = IF slot[k].got = 0 THEN refresh ELSE NoSlot
  /\ slot' = [slot EXCEPT ![k].at = "close"]
  /\ UNCHANGED <<source, enabled, serveErr, req, phase, lastServed>>
Publish(k) ==
  /\ slot[k].at = "publish"
  /\ refreshErr' = (slot[k].got = 0)
  /\ current' = IF Valid(slot[k].got) THEN slot[k].got ELSE current
  /\ refresh' = NoSlot
  /\ slot' = [slot EXCEPT ![k].at = "close"]
  /\ UNCHANGED <<source, enabled, serveErr, req, phase, lastServed>>

MutCloseDone(k) == \* mutant: only a successful refresh closes its channel
  /\ slot[k].at = "close" /\ slot[k].got # 0
  /\ slot' = [slot EXCEPT ![k].at = "ended"]
  /\ UNCHANGED <<source, state, req, phase, lastServed>>
CloseDone(k) ==
  /\ slot[k].at = "close"
  /\ slot' = [slot EXCEPT ![k].at = "ended"]
  /\ UNCHANGED <<source, state, req, phase, lastServed>>

-----------------------------------------------------------------------------
(***************************************************************************)
(* The call that owns the broker, and time.                                *)
(***************************************************************************)
\* The preflight has passed: the seed is served again, and renewed.
Activate ==
  /\ phase = "preflight"
  /\ phase' = "active" /\ current' = 1 /\ enabled' = TRUE
  /\ UNCHANGED <<source, refresh, refreshErr, serveErr, slot, req, lastServed>>

\* Connections are closed at once; refreshes are awaited for two seconds.
Close ==
  /\ phase \in {"preflight", "active"} /\ phase' = "closing"
  /\ UNCHANGED <<source, state, slot, req, lastServed>>
Closed ==
  /\ phase = "closing" /\ phase' = "closed"
  /\ UNCHANGED <<source, state, slot, req, lastServed>>

Age(v) ==
  /\ v <= issued /\ age[v] \in {"fresh", "stale"}
  /\ age' = [age EXCEPT ![v] = IF @ = "fresh" THEN "stale" ELSE "expired"]
  /\ UNCHANGED <<issued, alien, outages, state, slot, req, phase, lastServed>>

-----------------------------------------------------------------------------
MutSeedEnabled == TRUE \* mutant: a seeded broker renews before it is activated
SeedEnabled == FALSE

BrokerInit ==
  /\ issued = 1 /\ age \in {[v \in Versions |-> a] : a \in {"fresh", "stale", "endless"}}
  /\ alien = {} /\ outages = 0
  /\ current = 1 /\ enabled = SeedEnabled
  /\ refresh = NoSlot /\ refreshErr = FALSE /\ serveErr = FALSE
  /\ slot = [k \in Slots |-> [at |-> "ended", got |-> 0]]
  /\ req = [r \in Connections |-> [at |-> "idle", on |-> NoSlot, got |-> 0, floor |-> 0]]
  /\ phase = "preflight"
  /\ lastServed = 0

Handle(r) == Snapshot(r) \/ Wake(r) \/ Recheck(r) \/ Answer(r)
Refreshing(k) == Acquire(k) \/ Validate(k) \/ Publish(k) \/ CloseDone(k)

BrokerNext ==
  \/ \E r \in Connections : Arrive(r) \/ Handle(r) \/ GiveUp(r)
  \/ \E k \in Slots : Refreshing(k)
  \/ \E v \in Versions : Age(v)
  \/ Activate \/ Close \/ Closed

BrokerSpec == BrokerInit /\ [][BrokerNext]_brokerVars

\* Goroutines run, a waiter gets the mutex in the end, the source answers, and
\* the process keeps asking.
BrokerFairness ==
  /\ \A r \in Connections : SF_brokerVars(Handle(r)) /\ WF_brokerVars(Arrive(r))
  /\ \A k \in Slots : WF_brokerVars(Refreshing(k))
FairBrokerSpec == BrokerSpec /\ BrokerFairness

-----------------------------------------------------------------------------
Ages == {"fresh", "stale", "expired", "endless"}

BrokerTypeOK ==
  /\ issued \in Versions /\ age \in [Versions -> Ages] /\ alien \subseteq Versions /\ outages \in Nat
  /\ current \in 0..MaxVersion /\ enabled \in BOOLEAN /\ refresh \in Slots \cup {NoSlot}
  /\ refreshErr \in BOOLEAN /\ serveErr \in BOOLEAN
  /\ refresh # NoSlot => slot[refresh].at \in Running
  /\ slot \in [Slots -> [at : Running \cup {"close", "ended"}, got : 0..MaxVersion]]
  /\ req \in [Connections -> [at : {"idle", "lock", "wait", "recheck", "answer"},
                           on : Slots \cup {NoSlot}, got : 0..MaxVersion, floor : 0..MaxVersion]]
  /\ phase \in {"preflight", "active", "closing", "closed"}
  /\ lastServed \in 0..MaxVersion

\* The source, which may rotate a one-time token, is never asked twice at once.
SingleFlight ==
  \A j, k \in Slots : {slot[j].at, slot[k].at} \subseteq Running => j = k

\* Only credentials of the identity the call was authorised for leave the
\* broker, whatever the profile becomes while the transfer runs.
ServesPinnedIdentity == \A r \in Connections : req[r].at = "answer" => req[r].got \notin alien

\* A request never gets an older credential than one answered before it came.
NoStepBack == \A r \in Connections : req[r].at = "answer" /\ req[r].got # 0 => req[r].got >= req[r].floor

\* What the broker lends, and how it comes by it (snapshot, startRefreshLocked).
Lending == BrokerTypeOK /\ SingleFlight /\ ServesPinnedIdentity /\ NoStepBack

\* Every request is answered without relying on hang-ups or on the timer.
RequestsEnd == \A r \in Connections : (req[r].at = "lock") ~> (req[r].at = "idle")

\* Failed refreshes are followed by others: while the call runs and the profile
\* is of the pinned identity, a connection that keeps asking is served again and
\* again.
ServedAgain ==
  \A r \in Connections :
    <>[](phase = "active" /\ issued \notin alien) => []<>(req[r].at = "answer" /\ Valid(req[r].got))

\* The transfer is not held up and recovers from failures of the source.
KeepsServing == RequestsEnd /\ ServedAgain
=============================================================================
