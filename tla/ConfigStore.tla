---------------------------- MODULE ConfigStore ----------------------------
(***************************************************************************)
(* `ecctl configure` commands on one configuration file: each loads it     *)
(* without a lock, records its mutation and saves it under the sidecar     *)
(* lock, where the file is read again and replaced by a rename             *)
(* (pkg/config/config.go: LoadStore, SaveContext; internal/configfile).    *)
(***************************************************************************)
EXTENDS ConfigData, Integers

CONSTANTS
  Free,
  MaxFaults,  \* bound: lock timeouts, failed calls and killed commands
  MaxEdits    \* bound: edits of the file by hand, outside a locked section

ASSUME FreeAssumption == Free \notin Commands
ASSUME BoundsAssumption == MaxFaults \in Nat /\ MaxEdits \in Nat

VARIABLES file, asked, committed,
  lock,    \* holder of config.json.lock
  pc,
  seen,    \* the file as a command read it under the lock
  result,
  faults, edits

vars == <<file, asked, committed, lock, pc, seen, result, faults, edits>>

Init ==
  /\ file \in {NoFile, Fresh}
  /\ asked = [c \in Commands |-> None] /\ committed = {}
  /\ lock = Free /\ pc = [c \in Commands |-> "load"]
  /\ seen = [c \in Commands |-> NoFile] /\ result = [c \in Commands |-> "none"]
  /\ faults = 0 /\ edits = 0

Fault == faults < MaxFaults /\ faults' = faults + 1
MutDone(c, res) == \* mutant: a command that fails keeps the lock
  /\ pc' = [pc EXCEPT ![c] = "done"]
  /\ lock' = IF lock = c /\ res = "saved" THEN Free ELSE lock
  /\ result' = [result EXCEPT ![c] = res]
Done(c, res) ==
  /\ pc' = [pc EXCEPT ![c] = "done"]
  /\ lock' = IF lock = c THEN Free ELSE lock
  /\ result' = [result EXCEPT ![c] = res]

Load(c) ==
  /\ pc[c] = "load"
  /\ \E r \in Requests : asked' = [asked EXCEPT ![c] = Recorded(file, r, c)]
  /\ pc' = [pc EXCEPT ![c] = "save"]
  /\ UNCHANGED <<file, committed, lock, seen, result, faults, edits>>

MutLockFree == TRUE \* mutant: the lock file is not locked
LockFree == lock = Free

\* TryLockContext retries until its timeout.
Lock(c) ==
  /\ pc[c] = "save"
  /\ \/ /\ LockFree /\ lock' = c
        /\ pc' = [pc EXCEPT ![c] = "read"]
        /\ UNCHANGED <<result, faults>>
     \/ lock # Free /\ Fault /\ Done(c, "failed")
  /\ UNCHANGED <<file, asked, committed, seen, edits>>

Read(c) ==
  /\ pc[c] = "read"
  /\ \/ /\ Mergeable(file, asked[c])
        /\ seen' = [seen EXCEPT ![c] = file]
        /\ pc' = [pc EXCEPT ![c] = "write"]
        /\ UNCHANGED <<lock, result, faults>>
     \/ /\ ~Mergeable(file, asked[c]) /\ Done(c, "failed")
        /\ UNCHANGED <<seen, faults>>
     \/ Fault /\ Done(c, "failed") /\ UNCHANGED seen
  /\ UNCHANGED <<file, asked, committed, edits>>

\* AtomicWrite: a failure after the rename is reported as a failed save.
Write(c) ==
  /\ pc[c] = "write"
  /\ \/ /\ file' = Merged(seen[c], asked[c])
        /\ committed' = committed \cup {c}
        /\ \/ Done(c, "saved") /\ UNCHANGED faults
           \/ Fault /\ Done(c, "failed")
     \/ /\ Fault /\ Done(c, "failed")
        /\ UNCHANGED <<file, committed>>
  /\ UNCHANGED <<asked, seen, edits>>

Kill(c) ==
  /\ pc[c] \in {"read", "write"} /\ Fault
  /\ Done(c, "none")
  /\ UNCHANGED <<file, asked, committed, seen, edits>>

Edit ==
  /\ edits < MaxEdits /\ edits' = edits + 1
  /\ lock = Free
  /\ file' \in Edited(file)
  /\ UNCHANGED <<asked, committed, lock, pc, seen, result, faults>>

Next == Edit \/ \E c \in Commands : Load(c) \/ Lock(c) \/ Read(c) \/ Write(c) \/ Kill(c)

Spec == Init /\ [][Next]_vars

Fairness == \A c \in Commands : WF_vars(Lock(c)) /\ WF_vars(Read(c)) /\ WF_vars(Write(c))
FairSpec == Spec /\ Fairness

-----------------------------------------------------------------------------
TypeOK ==
  /\ file \in Files /\ committed \subseteq Commands
  /\ \A c \in Commands : asked[c] = None \/ asked[c] \in Mutations(c)
  /\ lock \in Commands \cup {Free}
  /\ pc \in [Commands -> {"load", "save", "read", "write", "done"}]
  /\ \A c \in Commands : pc[c] \in {"read", "write"} <=> lock = c
  /\ seen \in [Commands -> Files]
  /\ result \in [Commands -> {"none", "saved", "failed"}]
  /\ faults \in 0..MaxFaults /\ edits \in 0..MaxEdits

\* No save loses another command's update: every change of the file is one
\* whole mutation merged into the file as it is (SaveContext;
\* config_test.go:225 shows one interleaving).
Register == INSTANCE ConfigRegister WITH file <- file, asked <- asked, committed <- committed
NoLostUpdate == Register!Spec

\* Saves of the key, of the token and of a login in any order leave a profile
\* whose mode tells the credentials it holds (setValue, setNativeOAuthProfile).
Told(profile) ==
  /\ profile.mode = "AK" => profile.key # None /\ profile.token = None
  /\ profile.mode = "StsToken" => profile.token # None
  /\ profile.mode = "OAuth" => profile.key = None /\ profile.token = None /\ profile.login # None
ModeTellsCredentials ==
  file # NoFile => \A p \in Profiles : file.profiles[p] # NoProfile => Told(file.profiles[p])

\* A login is merged only over the credentials it saw before the browser was
\* opened, and never undoes a switch of profile made meanwhile.
MergesLogin(c) ==
  LET cfg == Shape(file)
      m == asked[c] IN
  c \in committed' \ committed /\ m.kind = "login" =>
    /\ Auth(ProfileMap(cfg, m.name)) = m.auth
    /\ cfg.current # m.current => file'.current = cfg.current
    /\ \A p \in Profiles \ {m.name} : file'.profiles[p] = cfg.profiles[p]
LoginMerges == [][\A c \in Commands : MergesLogin(c)]_vars

\* Every command that saves ends, whatever the others do with the lock.
SavesEnd == \A c \in Commands : pc[c] = "save" ~> pc[c] = "done"
=============================================================================
